---- MODULE Spec2Model ----
(***************************************************************************)
(* Model of x-poster: the time-based source rotation (RotationService) and *)
(* the OAuth percent-encoder of the Twitter client.                        *)
(*                                                                         *)
(* Instants are JavaScript Date values: integer milliseconds, UTC.         *)
(* Strings are sequences of UTF-16 code units (integers).                  *)
(***************************************************************************)
EXTENDS Integers, Sequences, FiniteSets, TLC

VARIABLES
    status,         \* "unconstructed" | "constructed" | "threw" : outcome of new RotationService(..)
    argSources,     \* the sources array handed to the constructor
    argInterval,    \* the intervalHours argument: a number, or DefaultArg when omitted
    sources,        \* this.sources
    intervalHours,  \* this.intervalHours
    now,            \* the wall clock, what new Date() reads
    call,           \* the rotation query last made: [op, now]
    ret,            \* its return value: a source or a number of milliseconds
    retSchedule,    \* the array getSchedule returned
    encIn,          \* argument of percentEncode
    encOut,         \* outcome of percentEncode: [outcome, str], outcome "none" | "returned" | "threw"
    valIn,          \* argument text of validateTweetLength
    valOut,         \* its outcome: [done, effectiveLength, ok]
    sgIn,           \* two runs of generateSignature: run -> [method, url, params, env]
    sgOut,          \* run -> [outcome, sortedParams, signatureBaseString, signingKey, signature]
    clock,          \* Date.now() of the worker that holds the TwitterClient, in ms
    env,            \* this.env of the TwitterClient: the four credentials
    calls,          \* caller -> the postTweet or testConnection call it has made
    rngDraws,       \* number of crypto.getRandomValues calls so far
    queries,        \* caller -> the rotation query it made last and what it got
    gen,            \* the call of AIGatewayService.generateTweet: its loop, waits and outcome
    statusReq,      \* the request to /status that the fetch handler is answering
    run,            \* the run of processScheduledTweet
    sched           \* a call of getSchedule, iteration by iteration

vars == <<status, argSources, argInterval, sources, intervalHours, now, call, ret, retSchedule, encIn, encOut,
          valIn, valOut, sgIn, sgOut, clock, env, calls, rngDraws, queries, gen,
          statusReq, run, sched>>

rotVars == <<status, argSources, argInterval, sources, intervalHours, now, call, ret, retSchedule>>
encVars == <<encIn, encOut>>
valVars == <<valIn, valOut>>
sgVars == <<sgIn, sgOut>>
twVars == <<env, calls, rngDraws>>
svcVars == <<queries, gen, statusReq, run, sched>>

\* what each part of the program leaves alone
nonRotVars == <<encVars, valVars, sgVars, twVars, clock, svcVars>>
nonEncVars == <<rotVars, valVars, sgVars, twVars, clock, svcVars>>
nonValVars == <<rotVars, encVars, sgVars, twVars, clock, svcVars>>
nonSgVars == <<rotVars, encVars, valVars, twVars, svcVars>>
nonTwVars == <<rotVars, encVars, valVars, sgVars, svcVars>>
nonSvcVars == <<encVars, valVars, sgVars, twVars, clock>>

----------------------------------------------------------------------------
(* Bounds of the model *)

MaxSources == 8
MaxInterval == 25
MaxDays == 1
MaxLen == 2
MaxPieces == 3
MaxTicks == 1
MaxSgTicks == 1
MaxIterations == 25

----------------------------------------------------------------------------
(* Program constants *)

DefaultIntervalHours == 4
HoursPerDay == 24
MsPerHour == 3600000
MsPerMinute == 60000
MsPerSecond == 1000
MsPerDay == 86400000
NonceBytes == 32
TweetMaxLength == 280

ClockStep == 1000
ClockStart == 1500

\* "http://" and "https://"
HttpScheme == <<104, 116, 116, 112, 58, 47, 47>>
HttpsScheme == <<104, 116, 116, 112, 115, 58, 47, 47>>

\* JavaScript values that are not numbers or sources; NaN is a number that no
\* computation of the model comes to
Undefined == 0
NaN == -1000000
\* marks an omitted constructor argument
DefaultArg == 0

----------------------------------------------------------------------------
(* JavaScript Date accessors *)

getUTCHours(t) == (t \div MsPerHour) % HoursPerDay
getUTCMinutes(t) == (t \div MsPerMinute) % 60
getUTCSeconds(t) == (t \div MsPerSecond) % 60
getUTCMilliseconds(t) == t % MsPerSecond

\* date.setUTCHours(hour, 0, 0, 0)
setUTCHours(t, hour) == (t \div MsPerDay) * MsPerDay + hour * MsPerHour
\* date.setUTCDate(date.getUTCDate() + 1)
setUTCDateNext(t) == t + MsPerDay

\* a % b for b >= 0: NaN when b is 0 or a is NaN, of the sign of a otherwise
JsMod(a, b) ==
    IF b = 0 \/ a = NaN THEN NaN
    ELSE IF a < 0 THEN 0 - ((0 - a) % b)
    ELSE a % b

\* a + b, NaN when a is
JsAdd(a, b) == IF a = NaN THEN NaN ELSE a + b

\* Math.floor(a / b): for b = 0 the quotient is NaN or an infinity, which the
\* % that follows turns into NaN as well
floorOfQuotient(a, b) == IF b = 0 THEN NaN ELSE a \div b

\* arr[i]: undefined outside the array (and for NaN)
ArrayGet(arr, i) == IF i \in 0..(Len(arr) - 1) THEN arr[i + 1] ELSE Undefined

----------------------------------------------------------------------------
(* The source registry: sources are identified by their unique names, here *)
(* the numbers 1..n in registry order.                                      *)

Registry(n) == [i \in 1..n |-> i]

----------------------------------------------------------------------------
(* RotationService *)

\* the index without the reduction modulo the number of sources
indexWithoutModulo(t) == getUTCHours(t) \div intervalHours

\* the index computed from the wall clock instead of the argument
getCurrentSourceIndexOfClock(t) ==
    JsMod(floorOfQuotient(getUTCHours(now), intervalHours), Len(sources))

\* Math.floor(hour / this.intervalHours) % this.sources.length
getCurrentSourceIndex(t) ==
    JsMod(floorOfQuotient(getUTCHours(t), intervalHours), Len(sources))

getCurrentSource(t) == ArrayGet(sources, getCurrentSourceIndex(t))

getNextSourceIndex(t) ==
    LET currentIndex == JsMod(floorOfQuotient(getUTCHours(t), intervalHours), Len(sources))
    IN  JsMod(JsAdd(currentIndex, 1), Len(sources))

getNextSource(t) == ArrayGet(sources, getNextSourceIndex(t))

\* the boundary computed from the current interval, not the one after it
currentIntervalHour(t) == (getUTCHours(t) \div intervalHours) * intervalHours

nextIntervalHour(t) ==
    LET currentInterval == getUTCHours(t) \div intervalHours
    IN  (currentInterval + 1) * intervalHours

hoursUntilNext(t) ==
    LET hour == getUTCHours(t)
    IN  IF nextIntervalHour(t) >= HoursPerDay
        THEN HoursPerDay - hour + (nextIntervalHour(t) - HoursPerDay)
        ELSE nextIntervalHour(t) - hour

getTimeUntilNextRotation(t) ==
    hoursUntilNext(t) * 60 * 60 * 1000
        - getUTCMinutes(t) * 60 * 1000
        - getUTCSeconds(t) * 1000
        - getUTCMilliseconds(t)

\* the loop test running one step too far
scheduleLoopTestInclusive(i) == i <= HoursPerDay

\* the loop test of getSchedule
scheduleLoopTest(i) == i < HoursPerDay

\* an iteration that leaves every entry on the day of now
scheduleEntrySameDay(t, i) ==
    LET hour == JsMod(getUTCHours(t) + i, HoursPerDay)
    IN  [time |-> setUTCHours(t, hour),
         source |-> ArrayGet(sources, JsMod(floorOfQuotient(hour, intervalHours), Len(sources)))]

\* one iteration of the loop of getSchedule
scheduleEntry(t, i) ==
    LET startHour == getUTCHours(t)
        hour == JsMod(startHour + i, HoursPerDay)
        index == JsMod(floorOfQuotient(hour, intervalHours), Len(sources))
        atHour == setUTCHours(t, hour)
    IN  [time |-> IF hour < startHour THEN setUTCDateNext(atHour) ELSE atHour,
         source |-> ArrayGet(sources, index)]

RECURSIVE scheduleLoop(_, _, _)
scheduleLoop(t, i, schedule) ==
    IF scheduleLoopTest(i)
    THEN scheduleLoop(t, i + intervalHours, Append(schedule, scheduleEntry(t, i)))
    ELSE schedule

getSchedule(t) == scheduleLoop(t, 0, << >>)

----------------------------------------------------------------------------
(* The instants the clock takes: every hour of the day, and within the hour *)
(* the boundary, one millisecond / second / minute past it, and the last    *)
(* millisecond.                                                              *)

SubHourOffsets == {0, 1, MsPerSecond, MsPerMinute, MsPerHour - 1}

Instants ==
    {h * MsPerHour + o : h \in 0..(MaxDays * HoursPerDay - 1), o \in SubHourOffsets}

\* the first instant of the model after t
NextInstant(t) ==
    LET hourStart == (t \div MsPerHour) * MsPerHour
        later == {o \in SubHourOffsets : hourStart + o > t}
    IN  IF later = {}
        THEN hourStart + MsPerHour
        ELSE hourStart + CHOOSE o \in later : \A p \in later : o <= p

NoCall == [op |-> "none", now |-> 0]

----------------------------------------------------------------------------
(* Actions of the rotation service *)

\* the constructor without its check of the array
constructorAcceptsAll(srcs) == FALSE

\* if (sources.length === 0) throw new Error(..)
constructorThrows(srcs) == Len(srcs) = 0

\* new RotationService(srcs, ih), ih omitted or given
Construct ==
    /\ status = "unconstructed"
    /\ \E n \in 0..MaxSources, ih \in (1..MaxInterval) \cup {DefaultArg} :
        /\ argSources' = Registry(n)
        /\ argInterval' = ih
        /\ IF constructorThrows(Registry(n))
           THEN /\ status' = "threw"
                /\ UNCHANGED <<sources, intervalHours>>
           ELSE /\ status' = "constructed"
                /\ sources' = Registry(n)
                /\ intervalHours' = IF ih = DefaultArg THEN DefaultIntervalHours ELSE ih
    /\ UNCHANGED <<now, call, ret, retSchedule>>
    /\ UNCHANGED nonRotVars

\* time passes, up to the next instant of the model; the value a caller held
\* is gone with the request
Tick ==
    /\ NextInstant(now) < MaxDays * MsPerDay
    /\ now' = NextInstant(now)
    /\ call' = NoCall
    /\ ret' = 0
    /\ retSchedule' = << >>
    /\ UNCHANGED <<status, argSources, argInterval, sources, intervalHours>>
    /\ UNCHANGED nonRotVars

CallGetCurrentSource ==
    /\ status = "constructed"
    /\ call' = [op |-> "getCurrentSource", now |-> now]
    /\ ret' = getCurrentSource(now)
    /\ retSchedule' = << >>
    /\ UNCHANGED <<status, argSources, argInterval, sources, intervalHours, now>>
    /\ UNCHANGED nonRotVars

CallGetNextSource ==
    /\ status = "constructed"
    /\ call' = [op |-> "getNextSource", now |-> now]
    /\ ret' = getNextSource(now)
    /\ retSchedule' = << >>
    /\ UNCHANGED <<status, argSources, argInterval, sources, intervalHours, now>>
    /\ UNCHANGED nonRotVars

CallGetTimeUntilNextRotation ==
    /\ status = "constructed"
    /\ call' = [op |-> "getTimeUntilNextRotation", now |-> now]
    /\ ret' = getTimeUntilNextRotation(now)
    /\ retSchedule' = << >>
    /\ UNCHANGED <<status, argSources, argInterval, sources, intervalHours, now>>
    /\ UNCHANGED nonRotVars

CallGetSchedule ==
    /\ status = "constructed"
    /\ call' = [op |-> "getSchedule", now |-> now]
    /\ ret' = 0
    /\ retSchedule' = getSchedule(now)
    /\ UNCHANGED <<status, argSources, argInterval, sources, intervalHours, now>>
    /\ UNCHANGED nonRotVars

\* [...this.sources]
getAllSources == [i \in 1..Len(sources) |-> sources[i]]

\* this.sources.length
getSourceCount == Len(sources)

QueryOps ==
    {"getCurrentSource", "getNextSource", "getTimeUntilNextRotation", "getSchedule",
     "getAllSources", "getSourceCount"}

\* the queries that take now
TimedOps == {"getCurrentSource", "getNextSource", "getTimeUntilNextRotation", "getSchedule"}

\* the instants of the callers and of the clock: the last millisecond of the
\* first default interval, the start of the second, 23:00
QueryInstants == {4 * MsPerHour - 1, 4 * MsPerHour, 23 * MsPerHour}

\* what the query op returns for now = t
answer(op, t) ==
    [op |-> op,
     now |-> IF op \in TimedOps THEN t ELSE 0,
     at |-> now,
     ret |-> IF op = "getCurrentSource" THEN getCurrentSource(t)
             ELSE IF op = "getNextSource" THEN getNextSource(t)
             ELSE IF op = "getTimeUntilNextRotation" THEN getTimeUntilNextRotation(t)
             ELSE IF op = "getSourceCount" THEN getSourceCount
             ELSE 0,
     schedule |-> IF op = "getSchedule" THEN getSchedule(t) ELSE << >>,
     all |-> IF op = "getAllSources" THEN getAllSources ELSE << >>]

\* caller c makes a query, with a Date of its own or with the default new Date()
Query(c) ==
    /\ status = "constructed"
    /\ \E op \in QueryOps, t \in QueryInstants, given \in BOOLEAN :
          queries' = [queries EXCEPT ![c] = answer(op, IF given THEN t ELSE now)]
    /\ UNCHANGED <<gen, statusReq, run, sched>>
    /\ UNCHANGED rotVars
    /\ UNCHANGED nonSvcVars

\* time passes between the calls
Advance ==
    /\ \E t \in QueryInstants : t > now /\ now' = t
    /\ UNCHANGED <<status, argSources, argInterval, sources, intervalHours, call, ret, retSchedule>>
    /\ UNCHANGED svcVars
    /\ UNCHANGED nonSvcVars

\* getSchedule(now) is called: const schedule = [], let i = 0
ScheduleStarts ==
    /\ status = "constructed"
    /\ sched.pc = "idle"
    /\ sched' = [sched EXCEPT !.pc = "looping", !.now = now]
    /\ UNCHANGED <<queries, gen, statusReq, run>>
    /\ UNCHANGED rotVars
    /\ UNCHANGED nonSvcVars

\* what the loop test and one iteration make of the call: the loop is left, or
\* source.getName() throws for a source that is undefined, or the entry is
\* pushed and i += this.intervalHours
iterated(s, entry) ==
    IF ~scheduleLoopTest(s.i) THEN [s EXCEPT !.pc = "done", !.outcome = "returned"]
    ELSE IF entry.source = Undefined
         THEN [s EXCEPT !.pc = "done", !.outcome = "threw", !.iterations = @ + 1]
    ELSE [s EXCEPT !.i = @ + intervalHours, !.iterations = @ + 1,
                   !.schedule = Append(@, entry)]

\* the loop of getSchedule, one test and one iteration at a time, followed for
\* MaxIterations iterations
ScheduleIterates ==
    /\ sched.pc = "looping"
    /\ sched.iterations < MaxIterations
    /\ sched' = iterated(sched, scheduleEntry(sched.now, sched.i))
    /\ UNCHANGED <<queries, gen, statusReq, run>>
    /\ UNCHANGED rotVars
    /\ UNCHANGED nonSvcVars

\* the fetch handler, url.pathname === "/status": each step takes the default
\* new Date() of the query it calls
StatusReadsCurrent ==
    /\ status = "constructed"
    /\ statusReq.pc = "idle"
    /\ statusReq' = [statusReq EXCEPT !.pc = "current",
                                       !.currentSource = getCurrentSource(now),
                                       !.reads = Append(@, now)]
    /\ UNCHANGED <<queries, gen, run, sched>>
    /\ UNCHANGED rotVars
    /\ UNCHANGED nonSvcVars

StatusReadsNext ==
    /\ statusReq.pc = "current"
    /\ statusReq' = [statusReq EXCEPT !.pc = "next",
                                       !.nextSource = getNextSource(now),
                                       !.reads = Append(@, now)]
    /\ UNCHANGED <<queries, gen, run, sched>>
    /\ UNCHANGED rotVars
    /\ UNCHANGED nonSvcVars

StatusReadsTimeUntilNext ==
    /\ statusReq.pc = "next"
    /\ statusReq' = [statusReq EXCEPT !.pc = "time",
                                       !.timeUntilNext = getTimeUntilNextRotation(now),
                                       !.reads = Append(@, now)]
    /\ UNCHANGED <<queries, gen, run, sched>>
    /\ UNCHANGED rotVars
    /\ UNCHANGED nonSvcVars

\* Response.json({..}): the timestamp and the number of sources are taken last
StatusResponds ==
    /\ statusReq.pc = "time"
    /\ statusReq' = [statusReq EXCEPT !.pc = "done",
                                       !.timestamp = now,
                                       !.totalSources = getSourceCount,
                                       !.reads = Append(@, now)]
    /\ UNCHANGED <<queries, gen, run, sched>>
    /\ UNCHANGED rotVars
    /\ UNCHANGED nonSvcVars

NoEncoding == [outcome |-> "none", str |-> << >>]

EncIdle ==
    /\ encIn = << >>
    /\ encOut = NoEncoding

NoValidation == [done |-> FALSE, effectiveLength |-> 0, ok |-> FALSE]

ValIdle ==
    /\ valIn = << >>
    /\ valOut = NoValidation

SgRuns == {1, 2}
Callers == {1, 2}

NoEnv ==
    [TWITTER_API_KEY |-> << >>, TWITTER_API_SECRET |-> << >>,
     TWITTER_ACCESS_TOKEN |-> << >>, TWITTER_ACCESS_SECRET |-> << >>]

NoSgInput == [method |-> << >>, url |-> << >>, params |-> << >>, env |-> NoEnv]

NoSignature ==
    [outcome |-> "none", at |-> 0, sortedParams |-> << >>, signatureBaseString |-> << >>,
     signingKey |-> << >>, signature |-> << >>]

SgIdle ==
    /\ sgIn = [r \in SgRuns |-> NoSgInput]
    /\ sgOut = [r \in SgRuns |-> NoSignature]

NoResponse == [kind |-> "none", status |-> 0, body |-> << >>, json |-> "none", id |-> << >>]

NoValue == [type |-> "none", str |-> << >>]
NoError == [name |-> "none", message |-> << >>]

NoRequest ==
    [op |-> "none", text |-> << >>, pc |-> "idle", startedAt |-> 0, draw |-> 0,
     method |-> << >>, url |-> << >>,
     array |-> << >>, timestamp |-> << >>, nonce |-> << >>,
     signingKey |-> << >>, signatureBaseString |-> << >>, signature |-> << >>,
     signatures |-> 0, authHeader |-> << >>, requestBody |-> << >>, hasBody |-> FALSE,
     attempts |-> 0,
     response |-> NoResponse, outcome |-> "none", value |-> NoValue, error |-> NoError]

TwIdle ==
    /\ env = NoEnv
    /\ calls = [c \in Callers |-> NoRequest]
    /\ rngDraws = 0

NoQuery == [op |-> "none", now |-> 0, at |-> 0, ret |-> 0, schedule |-> << >>, all |-> << >>]

NoGeneration ==
    [pc |-> "idle", characterLimit |-> 0, attempt |-> 0, requests |-> 0, startedAt |-> 0,
     waits |-> << >>, lastError |-> << >>, failures |-> << >>, output |-> << >>,
     outcome |-> "none", text |-> << >>, error |-> << >>]

NoStatus ==
    [pc |-> "idle", currentSource |-> 0, nextSource |-> 0, timeUntilNext |-> 0,
     timestamp |-> 0, totalSources |-> 0, reads |-> << >>]

NoRun ==
    [pc |-> "idle", steps |-> << >>, source |-> 0, links |-> << >>, articleUrl |-> 0,
     characterLimit |-> 0, tweetText |-> << >>, postedText |-> << >>, posts |-> 0,
     outcome |-> "none", raised |-> "none", rejected |-> "none"]

NoSchedule ==
    [pc |-> "idle", now |-> 0, i |-> 0, iterations |-> 0, schedule |-> << >>,
     outcome |-> "none"]

SvcIdle ==
    /\ queries = [c \in Callers |-> NoQuery]
    /\ gen = NoGeneration
    /\ statusReq = NoStatus
    /\ run = NoRun
    /\ sched = NoSchedule

RotInit ==
    /\ status = "unconstructed"
    /\ argSources = << >>
    /\ argInterval = DefaultArg
    /\ sources = << >>
    /\ intervalHours = DefaultIntervalHours
    /\ now \in Instants
    /\ call = NoCall
    /\ ret = 0
    /\ retSchedule = << >>
    /\ EncIdle
    /\ ValIdle
    /\ SgIdle
    /\ TwIdle
    /\ SvcIdle
    /\ clock = 0

RotNext ==
    \/ Construct
    \/ Tick
    \/ CallGetCurrentSource
    \/ CallGetNextSource
    \/ CallGetTimeUntilNextRotation
    \/ CallGetSchedule

SpecRotation == RotInit /\ [][RotNext]_vars

\* the size of the registry and the intervals of the services that are queried
\* by two callers
QuerySources == {3}
QueryIntervals == {DefaultArg, 5}

\* new RotationService(Registry(n), ih) has been made
QueryInit ==
    /\ status = "constructed"
    /\ \E n \in QuerySources, ih \in QueryIntervals :
          /\ argSources = Registry(n)
          /\ argInterval = ih
          /\ sources = Registry(n)
          /\ intervalHours = IF ih = DefaultArg THEN DefaultIntervalHours ELSE ih
    /\ now \in QueryInstants
    /\ call = NoCall
    /\ ret = 0
    /\ retSchedule = << >>
    /\ EncIdle
    /\ ValIdle
    /\ SgIdle
    /\ TwIdle
    /\ SvcIdle
    /\ clock = 0

QueryNext ==
    \/ \E c \in Callers : Query(c)
    \/ Advance

SpecQueries == QueryInit /\ [][QueryNext]_vars

\* the sizes of the registry of the worker that answers /status
StatusSources == {1, 2, 3}

StatusInit ==
    /\ status = "constructed"
    /\ \E n \in StatusSources, ih \in QueryIntervals :
          /\ argSources = Registry(n)
          /\ argInterval = ih
          /\ sources = Registry(n)
          /\ intervalHours = IF ih = DefaultArg THEN DefaultIntervalHours ELSE ih
    /\ now \in QueryInstants
    /\ call = NoCall
    /\ ret = 0
    /\ retSchedule = << >>
    /\ EncIdle
    /\ ValIdle
    /\ SgIdle
    /\ TwIdle
    /\ SvcIdle
    /\ clock = 0

StatusNext ==
    \/ StatusReadsCurrent
    \/ StatusReadsNext
    \/ StatusReadsTimeUntilNext
    \/ StatusResponds
    \/ Advance

SpecStatus == StatusInit /\ [][StatusNext]_vars

\* values of intervalHours a caller may hand to the constructor, and the hours
\* of its calls
AnyIntervals == {-4, -1, 0, 1, 4, 25}
AnyInstants == {0, MsPerHour, 5 * MsPerHour - 1, 23 * MsPerHour}

\* new RotationService(Registry(n), ih) for any number ih: only an empty
\* array is refused
AnyIntervalInit ==
    /\ status = "constructed"
    /\ \E n \in StatusSources, ih \in AnyIntervals :
          /\ ~constructorThrows(Registry(n))
          /\ argSources = Registry(n)
          /\ argInterval = ih
          /\ sources = Registry(n)
          /\ intervalHours = ih
    /\ now \in AnyInstants
    /\ call = NoCall
    /\ ret = 0
    /\ retSchedule = << >>
    /\ EncIdle
    /\ ValIdle
    /\ SgIdle
    /\ TwIdle
    /\ SvcIdle
    /\ clock = 0

AnyIntervalNext ==
    \/ CallGetCurrentSource
    \/ CallGetNextSource
    \/ ScheduleStarts
    \/ ScheduleIterates

SpecAnyInterval == AnyIntervalInit /\ [][AnyIntervalNext]_vars

----------------------------------------------------------------------------
(* Properties of the rotation service *)

Hour(t) == (t \div MsPerHour) % 24
Interval(t) == Hour(t) \div intervalHours
OnTheHour(t) == t % MsPerHour = 0
HourStart(t) == t - (t % MsPerHour)

\* the README's table for 3 sources and 4-hour intervals, by hour 0..23
DefaultTable == <<0, 0, 0, 0, 1, 1, 1, 1, 2, 2, 2, 2, 0, 0, 0, 0, 1, 1, 1, 1, 2, 2, 2, 2>>

\* C1: getCurrentSource(now) returns sources[floor(utcHour(now) / intervalHours)
\* mod len(sources)], an index within [0, len(sources)); with intervalHours = 5
\* at hour 23 it is index 4 mod len, and 3 sources at 4 hours follow the table
\* 0-3 -> 0, 4-7 -> 1, 8-11 -> 2, 12-15 -> 0, 16-19 -> 1, 20-23 -> 2.
C1_CurrentSourceByFormula ==
    (call.op = "getCurrentSource" /\ intervalHours > 0 /\ Len(sources) > 0) =>
        LET hour == Hour(call.now)
            idx == (hour \div intervalHours) % Len(sources)
        IN  /\ ret \in {sources[i] : i \in 1..Len(sources)}
            /\ ret = sources[idx + 1]
            /\ (intervalHours = 5 /\ hour = 23) => ret = sources[(4 % Len(sources)) + 1]
            /\ (intervalHours = 4 /\ Len(sources) = 3) => ret = sources[DefaultTable[hour + 1] + 1]

C1_Witness ==
    /\ call.op = "getCurrentSource"
    /\ intervalHours = 5
    /\ Len(sources) = 3
    /\ Hour(call.now) = 23
    /\ ret = sources[2]

\* C2: the source getNextSource(now) returns is the source getCurrentSource
\* returns at now + intervalHours hours, also across the UTC midnight wrap.
C2_NextIsCurrentOneIntervalLater ==
    (call.op = "getNextSource" /\ intervalHours > 0) =>
        ret = getCurrentSource(call.now + intervalHours * MsPerHour)

\* C3 as stated: 0 <= getTimeUntilNextRotation(now) < intervalHours * 3600000,
\* also at instants exactly on an interval boundary.
C3_CountdownBelowInterval ==
    (call.op = "getTimeUntilNextRotation" /\ intervalHours > 0) =>
        /\ 0 <= ret
        /\ ret < intervalHours * 3600000

OnIntervalBoundary(t) == OnTheHour(t) /\ Hour(t) % intervalHours = 0

\* C3 amended: 0 < getTimeUntilNextRotation(now) <= intervalHours * 3600000,
\* and the result is the whole interval exactly when now is on an interval
\* boundary (hour a multiple of intervalHours, minutes, seconds, ms zero).
C3_CountdownWithinInterval ==
    (call.op = "getTimeUntilNextRotation" /\ intervalHours > 0) =>
        /\ 0 < ret
        /\ ret <= intervalHours * 3600000
        /\ (ret = intervalHours * 3600000) <=> OnIntervalBoundary(call.now)

C3_Witness ==
    /\ call.op = "getTimeUntilNextRotation"
    /\ intervalHours = 4
    /\ call.now = 8 * MsPerHour
    /\ ret = 4 * 3600000

\* the hours k >= 1 after the hour of t at whose start floor(utcHour / intervalHours)
\* differs from its value at t
ChangeSteps(t) == {k \in 1..HoursPerDay : Interval(HourStart(t) + k * MsPerHour) # Interval(t)}

\* C4: now + getTimeUntilNextRotation(now) is the first instant after now at
\* which floor(utcHour / intervalHours) changes value, for every positive
\* intervalHours, also those that do not divide 24.
C4_CountdownEndsAtIndexChange ==
    (call.op = "getTimeUntilNextRotation" /\ intervalHours > 0) =>
        \E k \in ChangeSteps(call.now) :
            /\ \A j \in ChangeSteps(call.now) : k <= j
            /\ call.now + ret = HourStart(call.now) + k * MsPerHour

\* ceil(24 / n), by its definition
CeilOfDayBy(n) == CHOOSE c \in 1..HoursPerDay : c * n >= 24 /\ (c - 1) * n < 24

\* C5: getSchedule(now) returns exactly ceil(24 / intervalHours) entries,
\* 6 entries for intervalHours = 4.
C5_ScheduleLength ==
    (call.op = "getSchedule" /\ intervalHours > 0) =>
        /\ Len(retSchedule) = CeilOfDayBy(intervalHours)
        /\ intervalHours = 4 => Len(retSchedule) = 6

C5_Witness ==
    /\ call.op = "getSchedule"
    /\ intervalHours = 5
    /\ Len(retSchedule) = 5

\* C6: the first entry of getSchedule(now) is timestamped at the most recent
\* interval boundary <= now, and every later entry is an interval boundary too.
C6_ScheduleOnBoundaries ==
    (call.op = "getSchedule" /\ intervalHours > 0) =>
        /\ retSchedule[1].time = HourStart(call.now) - (Hour(call.now) % intervalHours) * MsPerHour
        /\ \A i \in 1..Len(retSchedule) : OnIntervalBoundary(retSchedule[i].time)

\* C7: with the interval left to its default, 4, 6 or 8 registered sources
\* make the selected source change every 24 / numberOfSources hours
\* (every 6, 4, 3 hours).
C7_IntervalFollowsSourceCount ==
    (call.op = "getCurrentSource" /\ argInterval = DefaultArg /\ Len(sources) \in {4, 6, 8}) =>
        LET every == 24 \div Len(sources)
        IN  ret = sources[((Hour(call.now) \div every) % Len(sources)) + 1]

\* C8: with the default 4-hour interval every registered source is returned
\* by getCurrentSource at some hour of the UTC day.
C8_EverySourceSelected ==
    (status = "constructed" /\ argInterval = DefaultArg) =>
        \A i \in 1..Len(sources) :
            \E h \in 0..23 : getCurrentSource(h * MsPerHour) = sources[i]

\* C9: constructing a RotationService with an empty source list fails, and a
\* constructed instance has at least one source in every state of its life.
C9_NonEmptySources ==
    /\ (status # "unconstructed" /\ Len(argSources) = 0) => status = "threw"
    /\ status = "constructed" => (Len(sources) >= 1 /\ sources = argSources)

C9_Witness ==
    /\ status = "threw"
    /\ Len(argSources) = 0

----------------------------------------------------------------------------
(* TwitterClient.percentEncode                                              *)
(* A string is the sequence of its UTF-16 code units.                       *)

RECURSIVE Flatten(_)
Flatten(ss) ==
    IF ss = << >> THEN << >>
    ELSE IF Len(ss) = 1 THEN ss[1]
    ELSE LET half == Len(ss) \div 2
         IN  Flatten(SubSeq(ss, 1, half)) \o Flatten(SubSeq(ss, half + 1, Len(ss)))

\* "A".."Z", "a".."z", "0".."9"
IsAlphaNum(c) == c \in (65..90) \cup (97..122) \cup (48..57)

\* the characters encodeURIComponent leaves alone: alphanumerics and - _ . ! ~ * ' ( )
UriUnescaped(c) == IsAlphaNum(c) \/ c \in {45, 95, 46, 33, 126, 42, 39, 40, 41}

IsLeadSurrogate(c) == c \in 55296..56319
IsTrailSurrogate(c) == c \in 56320..57343

\* the UTF-8 octets of a code point
Utf8Octets(v) ==
    IF v < 128 THEN <<v>>
    ELSE IF v < 2048 THEN <<192 + (v \div 64), 128 + (v % 64)>>
    ELSE IF v < 65536
         THEN <<224 + (v \div 4096), 128 + ((v \div 64) % 64), 128 + (v % 64)>>
    ELSE <<240 + (v \div 262144), 128 + ((v \div 4096) % 64),
           128 + ((v \div 64) % 64), 128 + (v % 64)>>

\* an upper-case hexadecimal digit, as a code unit
UpperHexDigit(d) == IF d < 10 THEN 48 + d ELSE 55 + d

\* "%XX" for an octet, as encodeURIComponent writes it
EscapeOctet(b) == <<37, UpperHexDigit(b \div 16), UpperHexDigit(b % 16)>>

\* "%XX%YY.." for the UTF-8 octets of a code point
EscapeOctets(v) == Flatten([j \in 1..Len(Utf8Octets(v)) |-> EscapeOctet(Utf8Octets(v)[j])])

\* a surrogate code unit at k that is not half of a pair: a lead without a trail
\* after it, a trail without a lead before it
unpairedAt(str, k) ==
    \/ IsLeadSurrogate(str[k]) /\ (k = Len(str) \/ ~IsTrailSurrogate(str[k + 1]))
    \/ IsTrailSurrogate(str[k]) /\ (k = 1 \/ ~IsLeadSurrogate(str[k - 1]))

\* what encodeURIComponent writes for the code unit at k of a well-formed string;
\* a pair is written at its lead
encodeAt(str, k) ==
    LET c == str[k] IN
        IF UriUnescaped(c) THEN <<c>>
        ELSE IF IsTrailSurrogate(c) THEN << >>
        ELSE IF IsLeadSurrogate(c)
             THEN EscapeOctets((c - 55296) * 1024 + (str[k + 1] - 56320) + 65536)
        ELSE EscapeOctets(c)

\* encodeURIComponent(str): [outcome |-> "returned", str] or, for an unpaired
\* surrogate, [outcome |-> "threw"] (URIError)
encodeURIComponent(str) ==
    IF \E k \in 1..Len(str) : unpairedAt(str, k)
    THEN [outcome |-> "threw", str |-> << >>]
    ELSE [outcome |-> "returned", str |-> Flatten([k \in 1..Len(str) |-> encodeAt(str, k)])]

\* n.toString(16): lower-case digits, no padding
RECURSIVE toString16(_)
toString16(n) ==
    LET d == n % 16
        digit == IF d < 10 THEN 48 + d ELSE 87 + d
    IN  IF n < 16 THEN <<digit>> ELSE Append(toString16(n \div 16), digit)

\* str.toUpperCase(), on ASCII
toUpperCase(str) == [i \in 1..Len(str) |-> IF str[i] \in 97..122 THEN str[i] - 32 ELSE str[i]]

\* the character class without the asterisk
replaceClassNoStar(c) == c \in {33, 39, 40, 41}

\* the character class [!'()*] of the replace
replaceClass(c) == c \in {33, 39, 40, 41, 42}

\* (c) => `%${c.charCodeAt(0).toString(16).toUpperCase()}`
replacement(c) == <<37>> \o toUpperCase(toString16(c))

\* str.replace(/[!'()*]/g, replacement)
replaceAll(str) ==
    Flatten([i \in 1..Len(str) |-> IF replaceClass(str[i]) THEN replacement(str[i]) ELSE <<str[i]>>])

\* the replace, where encodeURIComponent has returned
replaceEncoded(encoded) ==
    IF encoded.outcome = "threw" THEN encoded
    ELSE [outcome |-> "returned", str |-> replaceAll(encoded.str)]

percentEncode(str) == replaceEncoded(encodeURIComponent(str))

----------------------------------------------------------------------------
(* The strings percentEncode is applied to *)

\* A z 0 - . _ ~ ! ' ( ) * space % & + / = e-acute euro-sign, and the two
\* surrogates of U+1F600
EncAlphabet ==
    {65, 122, 48, 45, 46, 95, 126, 33, 39, 40, 41, 42, 32, 37, 38, 43, 47, 61,
     233, 8364, 55357, 56832}

RECURSIVE StringsUpTo(_)
StringsUpTo(n) ==
    IF n = 0 THEN {<< >>}
    ELSE LET shorter == StringsUpTo(n - 1)
         IN  shorter \cup {Append(s, c) : s \in shorter, c \in EncAlphabet}

\* "abc123-._~"
SafeExample == <<97, 98, 99, 49, 50, 51, 45, 46, 95, 126>>
\* "a!b'c(d)e*f"
OAuthExample == <<97, 33, 98, 39, 99, 40, 100, 41, 101, 42, 102>>
\* "a%21b%27c%28d%29e%2Af"
OAuthExampleEncoded ==
    <<97, 37, 50, 49, 98, 37, 50, 55, 99, 37, 50, 56, 100, 37, 50, 57, 101, 37, 50, 65, 102>>

\* every ASCII character on its own
AsciiSingles == {<<c>> : c \in 0..127}

EncInputs == StringsUpTo(MaxLen) \cup AsciiSingles \cup {SafeExample, OAuthExample}

CallPercentEncode ==
    /\ encOut.outcome = "none"
    /\ encOut' = percentEncode(encIn)
    /\ UNCHANGED encIn
    /\ UNCHANGED nonEncVars

\* the caller takes the result and comes with another string
EncodeAnother ==
    /\ encOut.outcome # "none"
    /\ \E s \in {SafeExample, OAuthExample, << >>} : encIn' = s
    /\ encOut' = NoEncoding
    /\ UNCHANGED nonEncVars

RotIdle ==
    /\ status = "unconstructed"
    /\ argSources = << >>
    /\ argInterval = DefaultArg
    /\ sources = << >>
    /\ intervalHours = DefaultIntervalHours
    /\ now = 0
    /\ call = NoCall
    /\ ret = 0
    /\ retSchedule = << >>
    /\ SvcIdle

EncInit ==
    /\ encIn \in EncInputs
    /\ encOut = NoEncoding
    /\ RotIdle
    /\ ValIdle
    /\ SgIdle
    /\ TwIdle
    /\ clock = 0

EncNext ==
    \/ CallPercentEncode
    \/ EncodeAnother

SpecEncode == EncInit /\ [][EncNext]_vars

----------------------------------------------------------------------------
(* Properties of percentEncode *)

\* A-Z a-z 0-9 - . _ ~
Unreserved(c) == IsAlphaNum(c) \/ c \in {45, 46, 95, 126}

\* a string without unpaired surrogates
RECURSIVE WellFormedFrom(_, _)
WellFormedFrom(str, k) ==
    IF k > Len(str) THEN TRUE
    ELSE IF IsLeadSurrogate(str[k])
         THEN k < Len(str) /\ IsTrailSurrogate(str[k + 1]) /\ WellFormedFrom(str, k + 2)
    ELSE ~IsTrailSurrogate(str[k]) /\ WellFormedFrom(str, k + 1)

WellFormed(str) == WellFormedFrom(str, 1)

\* the bytes (UTF-8) of a well-formed string
RECURSIVE BytesFrom(_, _)
BytesFrom(str, k) ==
    IF k > Len(str) THEN << >>
    ELSE IF IsLeadSurrogate(str[k])
         THEN Utf8Octets((str[k] - 55296) * 1024 + (str[k + 1] - 56320) + 65536)
                  \o BytesFrom(str, k + 2)
    ELSE Utf8Octets(str[k]) \o BytesFrom(str, k + 1)

HexDigits == <<48, 49, 50, 51, 52, 53, 54, 55, 56, 57, 65, 66, 67, 68, 69, 70>>

\* what the claim asks of one byte
ByteAsClaimed(b) ==
    IF Unreserved(b) THEN <<b>> ELSE <<37, HexDigits[(b \div 16) + 1], HexDigits[(b % 16) + 1]>>

\* C10: percentEncode leaves exactly the unreserved characters A-Z a-z 0-9 - . _ ~
\* unchanged and escapes every other byte as %XX with upper-case hex, ! ' ( ) *
\* included: "abc123-._~" encodes to itself, "a!b'c(d)e*f" to
\* a%21b%27c%28d%29e%2Af, and the empty string to the empty string.
C10_PercentEncodeRfc3986 ==
    (encOut.outcome # "none" /\ WellFormed(encIn)) =>
        LET bytes == BytesFrom(encIn, 1)
        IN  /\ encOut.outcome = "returned"
            /\ encOut.str = Flatten([i \in 1..Len(bytes) |-> ByteAsClaimed(bytes[i])])
            /\ encIn = SafeExample => encOut.str = SafeExample
            /\ encIn = OAuthExample => encOut.str = OAuthExampleEncoded
            /\ encIn = << >> => encOut.str = << >>

C10_Witness ==
    /\ encIn = OAuthExample
    /\ encOut.outcome = "returned"
    /\ encOut.str = OAuthExampleEncoded

\* C11: percentEncode is total: for every input string, also one with unpaired
\* surrogate code units, it has no error outcome and returns a string.
C11_PercentEncodeTotal ==
    encOut.outcome # "none" => encOut.outcome = "returned"

----------------------------------------------------------------------------
(* ContentProcessor.validateTweetLength *)

\* what the regular expression class \s and String.trim take for white space
IsWhiteSpace(c) ==
    c \in {9, 10, 11, 12, 13, 32, 160, 5760, 8232, 8233, 8239, 8287, 12288, 65279}
          \cup (8192..8202)

\* does lit stand in text at position p
LiteralAt(text, p, lit) ==
    /\ p + Len(lit) - 1 <= Len(text)
    /\ \A i \in 1..Len(lit) : text[p + i - 1] = lit[i]

\* the smallest of a set of positions, 0 for the empty set
smallest(positions) ==
    IF positions = {} THEN 0
    ELSE CHOOSE q \in positions : \A r \in positions : q <= r

runEndAt(text, stop) == IF stop = 0 THEN Len(text) + 1 ELSE stop

\* the end (exclusive) of the run of non-white-space that starts at p
runEnd(text, p) == runEndAt(text, smallest({w \in p..Len(text) : IsWhiteSpace(text[w])}))

\* where the scheme that stands at p ends (exclusive), 0 when none stands there
\* with a character that is no white space after it
afterScheme(text, p) ==
    IF LiteralAt(text, p, HttpsScheme) /\ runEnd(text, p + 8) > p + 8 THEN p + 8
    ELSE IF LiteralAt(text, p, HttpScheme) /\ runEnd(text, p + 7) > p + 7 THEN p + 7
    ELSE 0

matchLengthFrom(text, p, rest) == IF rest = 0 THEN 0 ELSE runEnd(text, rest) - p

\* the length of the match of /https?:\/\/[^\s]+/ at p, 0 when there is none
matchLengthAt(text, p) == matchLengthFrom(text, p, afterScheme(text, p))

\* the first position from p on where the pattern matches, 0 when there is none
nextMatch(text, p) == smallest({q \in p..Len(text) : matchLengthAt(text, q) > 0})

\* text.match(urlPattern) || []: the lengths of the matches, left to right, each
\* search starting where the match before it ended
RECURSIVE matchAll(_, _, _)
RECURSIVE matchAllFrom(_, _, _, _)
matchAllFrom(text, q, length, urls) ==
    IF q = 0 THEN urls ELSE matchAll(text, q + length, Append(urls, length))

matchAll(text, p, urls) ==
    matchAllFrom(text, nextMatch(text, p), matchLengthAt(text, nextMatch(text, p)), urls)

\* the weight without the length of the URL taken off
urlWeightAdded(length, urlLength) == length + 23

\* effectiveLength = effectiveLength - url.length + 23
urlWeight(length, urlLength) == length - urlLength + 23

RECURSIVE forEachUrl(_, _)
forEachUrl(urls, length) ==
    IF urls = << >> THEN length
    ELSE forEachUrl(Tail(urls), urlWeight(length, Head(urls)))

effectiveLength(text) == forEachUrl(matchAll(text, 1, << >>), Len(text))

validateTweetLength(text, maxLength) == effectiveLength(text) <= maxLength

----------------------------------------------------------------------------
(* The texts validateTweetLength is applied to *)

\* n letters "a"
Filler(n) == [i \in 1..n |-> 97]

\* a URL of u >= 9 characters
UrlOfLength(u) == HttpsScheme \o Filler(u - 8)

\* pieces of short texts: the schemes, a broken scheme, a letter, white space
Pieces == {HttpScheme, HttpsScheme, <<104, 116, 116, 112, 58, 47>>, <<97>>, <<115>>, <<32>>, <<10>>}

RECURSIVE PiecesUpTo(_)
PiecesUpTo(n) ==
    IF n = 0 THEN {<< >>}
    ELSE LET shorter == PiecesUpTo(n - 1)
         IN  shorter \cup {s \o piece : s \in shorter, piece \in Pieces}

\* texts around the limit: letters only, letters and one URL, two URLs and letters
LongTexts ==
    {Filler(n) : n \in 278..282}
        \cup {Filler(n) \o <<32>> \o UrlOfLength(u) : n \in 254..260, u \in {10, 40}}
        \cup {UrlOfLength(30) \o <<32>> \o UrlOfLength(30) \o <<10>> \o Filler(n) : n \in 231..234}

ValInputs == PiecesUpTo(MaxPieces) \cup LongTexts

CallValidateTweetLength ==
    /\ ~valOut.done
    /\ valOut' = [done |-> TRUE,
                  effectiveLength |-> effectiveLength(valIn),
                  ok |-> validateTweetLength(valIn, TweetMaxLength)]
    /\ UNCHANGED valIn
    /\ UNCHANGED nonValVars

\* the caller comes with another text
ValidateAnother ==
    /\ valOut.done
    /\ \E n \in {0, 277, 283} : valIn' = Filler(n)
    /\ valOut' = NoValidation
    /\ UNCHANGED nonValVars

ValInit ==
    /\ valIn \in ValInputs
    /\ valOut = NoValidation
    /\ RotIdle
    /\ EncIdle
    /\ SgIdle
    /\ TwIdle
    /\ clock = 0

ValNext ==
    \/ CallValidateTweetLength
    \/ ValidateAnother

SpecValidate == ValInit /\ [][ValNext]_vars

----------------------------------------------------------------------------
(* Properties of validateTweetLength *)

\* "http://" or "https://" and at least one character that is not white space
UrlStartsAt(text, p) ==
    \/ LiteralAt(text, p, HttpScheme) /\ p + 7 <= Len(text) /\ ~IsWhiteSpace(text[p + 7])
    \/ LiteralAt(text, p, HttpsScheme) /\ p + 8 <= Len(text) /\ ~IsWhiteSpace(text[p + 8])

\* the URLs of a text: each starts where the pattern stands and no earlier URL
\* runs over it, and reaches up to the next white space
UrlStarts(text) ==
    {p \in 1..Len(text) :
        /\ UrlStartsAt(text, p)
        /\ \A q \in 1..(p - 1) :
              UrlStartsAt(text, q) => \E w \in q..p : IsWhiteSpace(text[w])}

UrlLengthFrom(text, p) ==
    LET stops == {w \in p..Len(text) : IsWhiteSpace(text[w])}
    IN  IF stops = {} THEN Len(text) - p + 1
        ELSE (CHOOSE w \in stops : \A v \in stops : w <= v) - p

RECURSIVE SumOver(_, _, _)
SumOver(text, starts, acc) ==
    IF starts = {} THEN acc
    ELSE LET p == CHOOSE x \in starts : TRUE
         IN  SumOver(text, starts \ {p}, acc + UrlLengthFrom(text, p))

ClaimedEffectiveLength(text) ==
    Len(text) - SumOver(text, UrlStarts(text), 0) + 23 * Cardinality(UrlStarts(text))

\* C19: validateTweetLength(text) accepts exactly when the raw character count,
\* minus the lengths of the substrings matching http(s):// up to the next white
\* space, plus 23 for each of them, is at most 280; a 300-character text with
\* one 40-character URL counts 283 and is rejected.
C19_EffectiveLengthDecides ==
    valOut.done =>
        /\ valOut.effectiveLength = ClaimedEffectiveLength(valIn)
        /\ valOut.ok <=> (ClaimedEffectiveLength(valIn) <= 280)
        /\ valIn = Filler(259) \o <<32>> \o UrlOfLength(40) =>
              (Len(valIn) = 300 /\ valOut.effectiveLength = 283 /\ ~valOut.ok)

C19_Witness ==
    /\ valOut.done
    /\ valIn = Filler(259) \o <<32>> \o UrlOfLength(40)
    /\ valOut.effectiveLength = 283
    /\ ~valOut.ok

----------------------------------------------------------------------------
(* TwitterClient.generateSignature *)

\* parts.join(sep)
Join(parts, sep) ==
    IF parts = << >> THEN << >>
    ELSE Flatten([i \in 1..(2 * Len(parts) - 1) |->
                     IF i % 2 = 1 THEN parts[(i + 1) \div 2] ELSE sep])

\* -1, 0 or 1 as the sequence of weights a comes before, with or after b
LexCompareFrom(a, b, apart) ==
    IF apart # 0
    THEN (IF a[apart] < b[apart] THEN -1 ELSE 1)
    ELSE IF Len(a) < Len(b) THEN -1
    ELSE IF Len(a) > Len(b) THEN 1
    ELSE 0

LexCompare(a, b) ==
    LexCompareFrom(a, b, smallest({i \in 1..Len(a) : i <= Len(b) /\ a[i] # b[i]}))

\* the collation the runtime's localeCompare applies, on "_", digits and Latin
\* letters: "_" before digits before letters, a letter's case counting only
\* between strings that are otherwise alike, lower case first
CollationPrimary(c) ==
    IF c = 95 THEN 1
    ELSE IF c \in 48..57 THEN 10 + (c - 48)
    ELSE IF c \in 65..90 THEN 100 + (c - 65)
    ELSE IF c \in 97..122 THEN 100 + (c - 97)
    ELSE 2

CollationTertiary(c) == IF c \in 65..90 THEN 1 ELSE 0

primaryWeights(str) == [i \in 1..Len(str) |-> CollationPrimary(str[i])]
tertiaryWeights(str) == [i \in 1..Len(str) |-> CollationTertiary(str[i])]

\* the order by case where the letters are alike
byCase(primary, a, b) ==
    IF primary # 0 THEN primary ELSE LexCompare(tertiaryWeights(a), tertiaryWeights(b))

\* a.localeCompare(b)
localeCompare(a, b) == byCase(LexCompare(primaryWeights(a), primaryWeights(b)), a, b)

\* does entry j come to stand before entry i: the sort is stable
sortsBefore(order, j, i) == order < 0 \/ (order = 0 /\ j < i)

\* entries.sort(([a], [b]) => a.localeCompare(b))
sortEntries(entries) ==
    [r \in 1..Len(entries) |->
        entries[CHOOSE i \in 1..Len(entries) :
                   Cardinality({j \in 1..Len(entries) :
                                   sortsBefore(localeCompare(entries[j][1], entries[i][1]), j, i)})
                       = r - 1]]

\* .map(([key, value]) => ..): both halves of every entry percent-encoded
encodeEntries(entries) ==
    [i \in 1..Len(entries) |->
        [key |-> percentEncode(entries[i][1]), value |-> percentEncode(entries[i][2])]]

\* .join("&") of key=value, a percentEncode that threw ending it
joinEncoded(encoded) ==
    IF \E i \in 1..Len(encoded) :
          encoded[i].key.outcome = "threw" \/ encoded[i].value.outcome = "threw"
    THEN [outcome |-> "threw", str |-> << >>]
    ELSE [outcome |-> "returned",
          str |-> Join([i \in 1..Len(encoded) |->
                           encoded[i].key.str \o <<61>> \o encoded[i].value.str],
                       <<38>>)]

\* Object.entries(params).sort(..).map(..).join("&")
sortedParams(params) == joinEncoded(encodeEntries(sortEntries(params)))

\* the base string without the URL
signatureBaseStringNoUrl(method, encodedUrl, encodedParams) ==
    Join(<<toUpperCase(method), encodedParams>>, <<38>>)

\* [method.toUpperCase(), percentEncode(url), percentEncode(sortedParams)].join("&")
signatureBaseString(method, encodedUrl, encodedParams) ==
    Join(<<toUpperCase(method), encodedUrl, encodedParams>>, <<38>>)

\* the key of the consumer secret alone
signingKeyConsumerOnly(encodedApiSecret, encodedAccessSecret) ==
    Join(<<encodedApiSecret>>, <<38>>)

\* [percentEncode(TWITTER_API_SECRET), percentEncode(TWITTER_ACCESS_SECRET)].join("&")
signingKey(encodedApiSecret, encodedAccessSecret) ==
    Join(<<encodedApiSecret, encodedAccessSecret>>, <<38>>)

\* n.toString(), for n >= 0
RECURSIVE toString10(_)
toString10(n) ==
    IF n < 10 THEN <<48 + n>> ELSE Append(toString10(n \div 10), 48 + (n % 10))

\* a signature that takes the time of signing in
signStamped(key, messageData) ==
    key \o <<43>> \o messageData \o <<43>> \o toString10(clock) \o <<61>>

\* arrayBufferToBase64(await crypto.subtle.sign("HMAC", key, messageData)):
\* HMAC-SHA1 taken as an ideal function, one text for each key and message and
\* no text for two of them
sign(key, messageData) == key \o <<43>> \o messageData \o <<61>>

\* the signature of a base string under a key
signed(joined, baseString, key) ==
    [outcome |-> "returned", at |-> clock, sortedParams |-> joined,
     signatureBaseString |-> baseString, signingKey |-> key,
     signature |-> sign(key, baseString)]

\* generateSignature with its strings percent-encoded
signEncoded(method, encodedUrl, joined, encodedApiSecret, encodedAccessSecret) ==
    IF \/ joined.outcome = "threw"
       \/ encodedUrl.outcome = "threw"
       \/ encodedApiSecret.outcome = "threw"
       \/ encodedAccessSecret.outcome = "threw"
    THEN [outcome |-> "threw", at |-> clock, sortedParams |-> << >>,
          signatureBaseString |-> << >>, signingKey |-> << >>, signature |-> << >>]
    ELSE signed(joined.str,
                signatureBaseString(method, encodedUrl.str, percentEncode(joined.str).str),
                signingKey(encodedApiSecret.str, encodedAccessSecret.str))

generateSignature(method, url, params, clientEnv) ==
    signEncoded(method, percentEncode(url), sortedParams(params),
                percentEncode(clientEnv.TWITTER_API_SECRET),
                percentEncode(clientEnv.TWITTER_ACCESS_SECRET))

----------------------------------------------------------------------------
(* Two runs of generateSignature *)

\* "https://api.twitter.com/2/tweets", "https://api.twitter.com/2/users/me"
TweetsUrl == <<104, 116, 116, 112, 115, 58, 47, 47, 97, 112, 105, 46, 116, 119, 105, 116, 116, 101, 114, 46, 99, 111, 109, 47, 50, 47, 116, 119, 101, 101, 116, 115>>
UsersMeUrl == <<104, 116, 116, 112, 115, 58, 47, 47, 97, 112, 105, 46, 116, 119, 105, 116, 116, 101, 114, 46, 99, 111, 109, 47, 50, 47, 117, 115, 101, 114, 115, 47, 109, 101>>

\* "POST", "GET", "get"
MethodPost == <<80, 79, 83, 84>>
MethodGet == <<71, 69, 84>>
MethodGetLower == <<103, 101, 116>>

\* the names of the OAuth parameters
OAuthConsumerKey == <<111, 97, 117, 116, 104, 95, 99, 111, 110, 115, 117, 109, 101, 114, 95, 107, 101, 121>>
OAuthToken == <<111, 97, 117, 116, 104, 95, 116, 111, 107, 101, 110>>
OAuthSignatureMethod == <<111, 97, 117, 116, 104, 95, 115, 105, 103, 110, 97, 116, 117, 114, 101, 95, 109, 101, 116, 104, 111, 100>>
OAuthTimestamp == <<111, 97, 117, 116, 104, 95, 116, 105, 109, 101, 115, 116, 97, 109, 112>>
OAuthNonce == <<111, 97, 117, 116, 104, 95, 110, 111, 110, 99, 101>>
OAuthVersion == <<111, 97, 117, 116, 104, 95, 118, 101, 114, 115, 105, 111, 110>>
OAuthSignature == <<111, 97, 117, 116, 104, 95, 115, 105, 103, 110, 97, 116, 117, 114, 101>>

\* "HMAC-SHA1", "1.0"
HmacSha1 == <<72, 77, 65, 67, 45, 83, 72, 65, 49>>
Version10 == <<49, 46, 48>>

\* credentials as the worker's secrets hold them: "ck", "s!", "tk", "t&"
ExampleEnv ==
    [TWITTER_API_KEY |-> <<99, 107>>, TWITTER_API_SECRET |-> <<115, 33>>,
     TWITTER_ACCESS_TOKEN |-> <<116, 107>>, TWITTER_ACCESS_SECRET |-> <<116, 38>>]

\* the object generateOAuthHeader builds, in the order it writes the properties
oauthParams(clientEnv, timestamp, nonce) ==
    << <<OAuthConsumerKey, clientEnv.TWITTER_API_KEY>>,
       <<OAuthToken, clientEnv.TWITTER_ACCESS_TOKEN>>,
       <<OAuthSignatureMethod, HmacSha1>>,
       <<OAuthTimestamp, timestamp>>,
       <<OAuthNonce, nonce>>,
       <<OAuthVersion, Version10>> >>

\* parameter names of other callers: "a", "B", "_a"
SgKeys == {<<97>>, <<66>>, <<95, 97>>}

\* a URL of another caller: "https://t.co/a"
ShortUrl == <<104, 116, 116, 112, 115, 58, 47, 47, 116, 46, 99, 111, 47, 97>>

\* parameter maps of two entries, "1" and "v w" their values, and the OAuth
\* parameters with a short nonce
SgParamMaps ==
    {m \in {<< <<k1, <<49>>>>, <<k2, <<118, 32, 119>>>> >> : k1 \in SgKeys, k2 \in SgKeys} :
        m[1][1] # m[2][1]}
    \cup {oauthParams(ExampleEnv, <<49>>, <<48, 97>>)}

SgBaseInputs ==
    {[method |-> MethodPost, url |-> ShortUrl, params |-> p, env |-> ExampleEnv] : p \in SgParamMaps}
    \cup {[method |-> MethodGetLower, url |-> ShortUrl,
           params |-> << <<OAuthToken, <<116, 107>>>> >>, env |-> ExampleEnv]}

\* the characters put in the place of c: the letter in the other case ("x" for
\* what is no letter) and "&"
ChangeOf(c) ==
    {IF c \in 97..122 THEN c - 32 ELSE IF c \in 65..90 THEN c + 32 ELSE 120, 38} \ {c}

\* the inputs one character away from x in the method, the url, a secret or a
\* parameter value
SingleChanges(x) ==
    UNION {{[x EXCEPT !.method[p] = c] : c \in ChangeOf(x.method[p])} : p \in 1..Len(x.method)}
    \cup UNION {{[x EXCEPT !.url[p] = c] : c \in ChangeOf(x.url[p])} : p \in 1..Len(x.url)}
    \cup UNION {{[x EXCEPT !.env.TWITTER_API_SECRET[p] = c] :
                    c \in ChangeOf(x.env.TWITTER_API_SECRET[p])} :
                 p \in 1..Len(x.env.TWITTER_API_SECRET)}
    \cup UNION {{[x EXCEPT !.env.TWITTER_ACCESS_SECRET[p] = c] :
                    c \in ChangeOf(x.env.TWITTER_ACCESS_SECRET[p])} :
                 p \in 1..Len(x.env.TWITTER_ACCESS_SECRET)}
    \cup UNION {UNION {{[x EXCEPT !.params[i][2][p] = c] : c \in ChangeOf(x.params[i][2][p])} :
                         p \in 1..Len(x.params[i][2])} :
                 i \in 1..Len(x.params)}

\* the second run: the same call, the same call on a client with another
\* consumer key, or a call one character away
SecondRuns(x) ==
    {x, [x EXCEPT !.env.TWITTER_API_KEY = <<99, 50>>]} \cup SingleChanges(x)

CallGenerateSignature(r) ==
    /\ sgOut[r].outcome = "none"
    /\ sgOut' = [sgOut EXCEPT ![r] =
                    generateSignature(sgIn[r].method, sgIn[r].url, sgIn[r].params, sgIn[r].env)]
    /\ UNCHANGED <<sgIn, clock>>
    /\ UNCHANGED nonSgVars

\* time passes between the two runs
SgClockTick ==
    /\ clock < ClockStart + MaxSgTicks * ClockStep
    /\ clock' = clock + ClockStep
    /\ UNCHANGED sgVars
    /\ UNCHANGED nonSgVars

SgInit ==
    /\ \E x \in SgBaseInputs : \E y \in SecondRuns(x) :
          sgIn = [r \in SgRuns |-> IF r = 1 THEN x ELSE y]
    /\ sgOut = [r \in SgRuns |-> NoSignature]
    /\ clock = ClockStart
    /\ TwIdle
    /\ RotIdle
    /\ EncIdle
    /\ ValIdle

SgNext ==
    \/ \E r \in SgRuns : CallGenerateSignature(r)
    \/ SgClockTick

SpecSign == SgInit /\ [][SgNext]_vars

----------------------------------------------------------------------------
(* Properties of generateSignature *)

\* the pieces of str between the occurrences of sep
SplitOn(str, sep) ==
    LET seps == {i \in 1..Len(str) : LiteralAt(str, i, sep)}
        nth(k) == CHOOSE i \in seps : Cardinality({j \in seps : j < i}) = k - 1
        from(k) == IF k = 1 THEN 1 ELSE nth(k - 1) + Len(sep)
        to(k) == IF k = Cardinality(seps) + 1 THEN Len(str) ELSE nth(k) - 1
    IN  [k \in 1..(Cardinality(seps) + 1) |-> SubSeq(str, from(k), to(k))]

\* a comes before b in the order of their bytes
ByteWiseBefore(a, b) ==
    \/ \E i \in 1..Len(a) :
          /\ i <= Len(b)
          /\ a[i] < b[i]
          /\ \A j \in 1..(i - 1) : a[j] = b[j]
    \/ Len(a) < Len(b) /\ \A j \in 1..Len(a) : a[j] = b[j]

\* the percent-encoded keys of a parameter string, in the order they stand in it
EncodedKeys(paramString) ==
    [k \in 1..Len(SplitOn(paramString, <<38>>)) |->
        SplitOn(SplitOn(paramString, <<38>>)[k], <<61>>)[1]]

SameSigningInputs(x, y) ==
    /\ x.method = y.method
    /\ x.url = y.url
    /\ x.params = y.params
    /\ x.env.TWITTER_API_SECRET = y.env.TWITTER_API_SECRET
    /\ x.env.TWITTER_ACCESS_SECRET = y.env.TWITTER_ACCESS_SECRET

OneCharApart(a, b) ==
    /\ Len(a) = Len(b)
    /\ Cardinality({i \in 1..Len(a) : a[i] # b[i]}) = 1

\* what a change is made in: the secrets, the url, the method, the values
PartsOf(x) ==
    <<x.env.TWITTER_API_SECRET, x.env.TWITTER_ACCESS_SECRET, x.url, x.method>>
        \o [i \in 1..Len(x.params) |-> x.params[i][2]]

IsMethodPart(k) == k = 4

\* x and y differ in one character of part k and in nothing else that is signed
ChangedIn(x, y, k) ==
    /\ Len(x.params) = Len(y.params)
    /\ \A i \in 1..Len(x.params) : x.params[i][1] = y.params[i][1]
    /\ k \in 1..Len(PartsOf(x))
    /\ OneCharApart(PartsOf(x)[k], PartsOf(y)[k])
    /\ \A j \in 1..Len(PartsOf(x)) : j # k => PartsOf(x)[j] = PartsOf(y)[j]

SignedInput(out) == <<out.signingKey, out.signatureBaseString>>

----------------------------------------------------------------------------
(* TwitterClient.postTweet, testConnection, generateOAuthHeader, generateNonce *)

\* str without its first leading - 1 and its last trailing - 1 characters, the
\* empty string when it is white space throughout
trimmed(str, leading, trailing) ==
    IF leading = 0 THEN << >> ELSE SubSeq(str, leading, Len(str) + 1 - trailing)

\* str.trim()
trim(str) == trimmed(str, smallest({i \in 1..Len(str) : ~IsWhiteSpace(str[i])}),
                   smallest({i \in 1..Len(str) : ~IsWhiteSpace(str[Len(str) + 1 - i])}))

\* the test without the trim
textIsEmptyUntrimmed(text) == text = << >>

\* !text || text.trim().length === 0
textIsEmpty(text) == text = << >> \/ Len(trim(text)) = 0

\* byte.toString(16), not padded
byteToHexNoPad(byte) == toString16(byte)

\* byte.toString(16).padStart(2, "0")
byteToHex(byte) ==
    IF Len(toString16(byte)) < 2 THEN <<48>> \o toString16(byte) ELSE toString16(byte)

\* Array.from(array, byteToHex).join("")
generateNonce(array) == Flatten([i \in 1..Len(array) |-> byteToHex(array[i])])

\* what crypto.getRandomValues may write into the array: two of the 256^32 fillings
RandomArrays ==
    {[i \in 1..NonceBytes |-> (i * 7) % 256], [i \in 1..NonceBytes |-> 255 - i]}

\* Math.floor(Date.now() / 1000).toString()
timestampAt(t) == toString10(t \div 1000)

\* the parameters of the header without the signature
authParamsUnsigned(params, signature) == params

\* { ...oauthParams, oauth_signature: signature }
authParams(params, signature) == Append(params, <<OAuthSignature, signature>>)

\* "OAuth "
OAuthPrefix == <<79, 65, 117, 116, 104, 32>>

\* "Tweet text cannot be empty", "Tweet exceeds maximum length: ", " characters",
\* "Twitter API error (", "): "
MessageEmpty == <<84, 119, 101, 101, 116, 32, 116, 101, 120, 116, 32, 99, 97, 110, 110, 111, 116, 32, 98, 101, 32, 101, 109, 112, 116, 121>>
MessageTooLong == <<84, 119, 101, 101, 116, 32, 101, 120, 99, 101, 101, 100, 115, 32, 109, 97, 120, 105, 109, 117, 109, 32, 108, 101, 110, 103, 116, 104, 58, 32>>
MessageCharacters == <<32, 99, 104, 97, 114, 97, 99, 116, 101, 114, 115>>
MessageApiError == <<84, 119, 105, 116, 116, 101, 114, 32, 65, 80, 73, 32, 101, 114, 114, 111, 114, 32, 40>>
MessageApiErrorColon == <<41, 58, 32>>

\* "true", "false"
TextTrue == <<116, 114, 117, 101>>
TextFalse == <<102, 97, 108, 115, 101>>

\* a body of a response that is not ok: "denied"
BodyDenied == <<100, 101, 110, 105, 101, 100>>

\* "OAuth " + Object.entries(authParams).map(..).join(", ")
renderHeader(entries, values) ==
    IF \E i \in 1..Len(entries) : values[i].outcome = "threw"
    THEN [outcome |-> "threw", str |-> << >>]
    ELSE [outcome |-> "returned",
          str |-> OAuthPrefix \o
                  Join([i \in 1..Len(entries) |->
                           entries[i][1] \o <<61, 34>> \o values[i].str \o <<34>>],
                       <<44, 32>>)]

authHeader(entries) ==
    renderHeader(entries, [i \in 1..Len(entries) |-> percentEncode(entries[i][2])])

\* the texts a caller comes with: "", " \n", "hi", " hi\n", 280 and 281 letters,
\* 250 letters and a URL of 40 characters (291 in all, 274 counted), 280
\* letters and a line end
TweetTexts ==
    {<< >>, <<32, 10>>, <<104, 105>>, <<32, 104, 105, 10>>, Filler(280), Filler(281),
     Filler(250) \o <<32>> \o UrlOfLength(40), Filler(280) \o <<10>>}

\* the texts of two callers at a time: " \n", "hi"
ConcurrentTexts == {<<32, 10>>, <<104, 105>>}

\* what fetch to the publish endpoint ends with: a network failure, a response
\* that is not ok, a 201 with {"data":{"id":"17","text":..}}, with {"data":{}},
\* with {} and with a body that is no JSON
TweetResponses ==
    {[kind |-> "failed", status |-> 0, body |-> << >>, json |-> "none", id |-> << >>],
     [kind |-> "response", status |-> 401, body |-> BodyDenied, json |-> "none", id |-> << >>],
     [kind |-> "response", status |-> 500, body |-> << >>, json |-> "none", id |-> << >>],
     [kind |-> "response", status |-> 201, body |-> << >>, json |-> "id", id |-> <<49, 55>>],
     [kind |-> "response", status |-> 201, body |-> << >>, json |-> "noId", id |-> << >>],
     [kind |-> "response", status |-> 201, body |-> << >>, json |-> "noData", id |-> << >>],
     [kind |-> "response", status |-> 201, body |-> << >>, json |-> "invalid", id |-> << >>]}

\* the ends of fetch for two callers at a time: a network failure, a 201 with an id
ConcurrentTweetResponses ==
    {[kind |-> "failed", status |-> 0, body |-> << >>, json |-> "none", id |-> << >>],
     [kind |-> "response", status |-> 201, body |-> << >>, json |-> "id", id |-> <<49, 55>>]}

\* what fetch to users/me ends with
MeResponses ==
    {[kind |-> "failed", status |-> 0, body |-> << >>, json |-> "none", id |-> << >>],
     [kind |-> "response", status |-> 401, body |-> BodyDenied, json |-> "none", id |-> << >>],
     [kind |-> "response", status |-> 200, body |-> << >>, json |-> "id", id |-> <<49, 55>>]}

\* response.ok
ok(response) == response.status \in 200..299

Thrown(c, name, message) ==
    [calls[c] EXCEPT !.pc = "done", !.outcome = "threw",
                     !.error = [name |-> name, message |-> message]]

\* an error inside the try block: postTweet logs it and throws it again,
\* testConnection logs it and returns false
Caught(c, op, name, message) ==
    IF op = "testConnection"
    THEN [calls[c] EXCEPT !.pc = "done", !.outcome = "returned",
                          !.value = [type |-> "boolean", str |-> TextFalse]]
    ELSE Thrown(c, name, message)

StartedWith(c, op, text, array, signature) ==
    IF signature.outcome = "threw"
    THEN [Caught(c, op, "URIError", << >>) EXCEPT !.op = op, !.text = text,
                                                   !.draw = rngDraws + 1, !.array = array]
    ELSE [calls[c] EXCEPT !.op = op, !.text = text, !.pc = "signing",
                          !.startedAt = clock, !.draw = rngDraws + 1, !.array = array,
                          !.timestamp = timestampAt(clock),
                          !.nonce = generateNonce(array),
                          !.signingKey = signature.signingKey,
                          !.signatureBaseString = signature.signatureBaseString,
                          !.requestBody = IF op = "postTweet" THEN trim(text) ELSE << >>]

\* generateOAuthHeader up to the first await inside generateSignature: the
\* timestamp, the nonce, the base string and the key are made; the body is not read
Started(c, op, text, method, url, array) ==
    [StartedWith(c, op, text, array,
                 generateSignature(method, url,
                                   oauthParams(env, timestampAt(clock), generateNonce(array)),
                                   env))
        EXCEPT !.method = method, !.url = url]

\* postTweet(text) up to its first await, or to the error of its validation
postTweetCalled(c, texts) ==
    /\ calls[c].pc = "idle"
    /\ \E text \in texts :
          IF textIsEmpty(text)
          THEN /\ calls' = [calls EXCEPT ![c] =
                               [Thrown(c, "Error", MessageEmpty) EXCEPT
                                    !.op = "postTweet", !.text = text]]
               /\ UNCHANGED rngDraws
          ELSE IF ~validateTweetLength(text, TweetMaxLength)
          THEN /\ calls' = [calls EXCEPT ![c] =
                               [Thrown(c, "Error",
                                       MessageTooLong \o toString10(Len(text)) \o MessageCharacters)
                                   EXCEPT !.op = "postTweet", !.text = text]]
               /\ UNCHANGED rngDraws
          ELSE \E array \in RandomArrays :
               /\ calls' = [calls EXCEPT ![c] =
                               Started(c, "postTweet", text, MethodPost, TweetsUrl, array)]
               /\ rngDraws' = rngDraws + 1
    /\ UNCHANGED <<env, clock>>

CallPostTweet(c, texts) ==
    /\ postTweetCalled(c, texts)
    /\ UNCHANGED nonTwVars

CallTestConnection(c) ==
    /\ calls[c].pc = "idle"
    /\ \E array \in RandomArrays :
          /\ calls' = [calls EXCEPT ![c] =
                          Started(c, "testConnection", << >>, MethodGet, UsersMeUrl, array)]
          /\ rngDraws' = rngDraws + 1
    /\ UNCHANGED <<env, clock>>
    /\ UNCHANGED nonTwVars

SentWith(c, signature, header) ==
    IF header.outcome = "threw"
    THEN [Caught(c, calls[c].op, "URIError", << >>)
              EXCEPT !.signature = signature, !.signatures = @ + 1]
    ELSE [calls[c] EXCEPT !.pc = "fetching",
                          !.signature = signature,
                          !.signatures = @ + 1,
                          !.authHeader = header.str,
                          !.hasBody = (calls[c].op = "postTweet"),
                          !.attempts = @ + 1]

Sent(c, signature) ==
    SentWith(c, signature,
             authHeader(authParams(oauthParams(env, calls[c].timestamp, calls[c].nonce),
                                   signature)))

\* the rest of generateOAuthHeader and the call of fetch: the signature is
\* computed, the header is put together and the request goes out
SendRequest(c) ==
    /\ calls[c].pc = "signing"
    /\ calls' = [calls EXCEPT ![c] =
                    Sent(c, sign(calls[c].signingKey, calls[c].signatureBaseString))]
    /\ UNCHANGED <<env, rngDraws, clock>>
    /\ UNCHANGED nonTwVars

\* what postTweet does with the end of fetch
postTweetAnswered(c, response) ==
    IF response.kind = "failed" THEN Caught(c, "postTweet", "NetworkError", << >>)
    ELSE IF ~ok(response)
         THEN Thrown(c, "Error",
                     MessageApiError \o toString10(response.status)
                         \o MessageApiErrorColon \o response.body)
    ELSE IF response.json = "invalid" THEN Thrown(c, "SyntaxError", << >>)
    ELSE IF response.json = "noData" THEN Thrown(c, "TypeError", << >>)
    ELSE IF response.json = "noId"
         THEN [calls[c] EXCEPT !.pc = "done", !.outcome = "returned",
                               !.value = [type |-> "undefined", str |-> << >>]]
    ELSE [calls[c] EXCEPT !.pc = "done", !.outcome = "returned",
                          !.value = [type |-> "string", str |-> response.id]]

\* a testConnection that takes every response for a success
testConnectionAnsweredAny(c, response) ==
    IF response.kind = "failed" THEN Caught(c, "testConnection", "NetworkError", << >>)
    ELSE [calls[c] EXCEPT !.pc = "done", !.outcome = "returned",
                          !.value = [type |-> "boolean", str |-> TextTrue]]

\* what testConnection does with it: return response.ok, false when fetch failed
testConnectionAnswered(c, response) ==
    IF response.kind = "failed" THEN Caught(c, "testConnection", "NetworkError", << >>)
    ELSE [calls[c] EXCEPT !.pc = "done", !.outcome = "returned",
                          !.value = [type |-> "boolean",
                                     str |-> IF ok(response) THEN TextTrue ELSE TextFalse]]

Respond(c, tweetResponses) ==
    /\ calls[c].pc = "fetching"
    /\ \E response \in (IF calls[c].op = "postTweet" THEN tweetResponses ELSE MeResponses) :
          calls' = [calls EXCEPT ![c] =
                       [(IF calls[c].op = "postTweet"
                         THEN postTweetAnswered(c, response)
                         ELSE testConnectionAnswered(c, response))
                            EXCEPT !.response = response]]
    /\ UNCHANGED <<env, rngDraws, clock>>
    /\ UNCHANGED nonTwVars

\* time passes
TwClockTick ==
    /\ clock < ClockStart + MaxTicks * ClockStep
    /\ clock' = clock + ClockStep
    /\ UNCHANGED twVars
    /\ UNCHANGED nonTwVars

TwInit ==
    /\ env = ExampleEnv
    /\ calls = [c \in Callers |-> NoRequest]
    /\ rngDraws = 0
    /\ clock = ClockStart
    /\ SgIdle
    /\ RotIdle
    /\ EncIdle
    /\ ValIdle

\* two callers use the client at a time
TwNext ==
    \/ \E c \in Callers : CallPostTweet(c, ConcurrentTexts)
    \/ \E c \in Callers : CallTestConnection(c)
    \/ \E c \in Callers : SendRequest(c)
    \/ \E c \in Callers : Respond(c, ConcurrentTweetResponses)
    \/ TwClockTick

SpecTwitter == TwInit /\ [][TwNext]_vars

\* one caller posts a tweet
PostNext ==
    \/ CallPostTweet(1, TweetTexts)
    \/ SendRequest(1)
    \/ Respond(1, TweetResponses)
    \/ TwClockTick

SpecPostTweet == TwInit /\ [][PostNext]_vars

\* what a credential reads as when the binding is not set: undefined, which
\* encodeURIComponent, the only reader of a credential, turns into "undefined"
MissingCredential == <<117, 110, 100, 101, 102, 105, 110, 101, 100>>

\* a credential that holds a lead surrogate without its trail surrogate
UnpairedCredential == <<55357>>

\* the environments a worker may be deployed with: all four credentials set,
\* one of them empty, all of them empty, one not set, one that cannot be encoded
CredentialEnvs ==
    {ExampleEnv,
     [ExampleEnv EXCEPT !.TWITTER_API_KEY = << >>],
     [ExampleEnv EXCEPT !.TWITTER_API_SECRET = << >>],
     [ExampleEnv EXCEPT !.TWITTER_ACCESS_TOKEN = << >>],
     [ExampleEnv EXCEPT !.TWITTER_ACCESS_SECRET = << >>],
     NoEnv,
     [ExampleEnv EXCEPT !.TWITTER_ACCESS_SECRET = MissingCredential],
     [ExampleEnv EXCEPT !.TWITTER_API_KEY = UnpairedCredential],
     [ExampleEnv EXCEPT !.TWITTER_API_SECRET = UnpairedCredential]}

\* new TwitterClient(env): the environment is stored as it comes
CredInit ==
    /\ env \in CredentialEnvs
    /\ calls = [c \in Callers |-> NoRequest]
    /\ rngDraws = 0
    /\ clock = ClockStart
    /\ SgIdle
    /\ RotIdle
    /\ EncIdle
    /\ ValIdle

\* one caller uses a client made with any of these environments
CredNext ==
    \/ CallPostTweet(1, ConcurrentTexts)
    \/ CallTestConnection(1)
    \/ SendRequest(1)
    \/ Respond(1, ConcurrentTweetResponses)
    \/ TwClockTick

SpecCredentials == CredInit /\ [][CredNext]_vars

----------------------------------------------------------------------------
(* AIGatewayService.generateTweet *)

\* ".", "!", "?"
IsStop(c) == c \in {46, 33, 63}

\* where the pieces between the runs of [.!?] start
sentenceStarts(tweet) ==
    {p \in 1..Len(tweet) : ~IsStop(tweet[p]) /\ (p = 1 \/ IsStop(tweet[p - 1]))}

\* the piece that starts at p
sentenceAt(tweet, p) ==
    SubSeq(tweet, p, runEndAt(tweet, smallest({q \in p..Len(tweet) : IsStop(tweet[q])})) - 1)

splitAt(tweet, starts) ==
    (IF IsStop(tweet[1]) THEN << << >> >> ELSE << >>)
        \o [k \in 1..Cardinality(starts) |->
               sentenceAt(tweet, CHOOSE p \in starts : Cardinality({q \in starts : q <= p}) = k)]
        \o (IF IsStop(tweet[Len(tweet)]) THEN << << >> >> ELSE << >>)

\* tweet.split(/[.!?]+/), for a tweet that is not empty
split(tweet) == splitAt(tweet, sentenceStarts(tweet))

\* (truncated + sentence).length when the loop comes to sentence j
RECURSIVE lengthWith(_, _)
lengthWith(sentences, j) ==
    IF j = 1 THEN Len(sentences[1])
    ELSE lengthWith(sentences, j - 1) + 1 + Len(sentences[j])

\* the sentences the loop takes before it breaks, each with "." after it
truncatedFrom(sentences, characterLimit) ==
    Flatten([j \in 1..Cardinality({i \in 1..Len(sentences) :
                                      \A h \in 1..i : lengthWith(sentences, h) <= characterLimit - 3})
                |-> sentences[j] \o <<46>>])

\* tweet.substring(0, n)
substring0(tweet, n) == IF n <= 0 THEN << >> ELSE SubSeq(tweet, 1, IF n < Len(tweet) THEN n ELSE Len(tweet))

\* truncated.trim() || tweet.substring(0, characterLimit - 3) + "..."
truncatedOr(truncated, tweet, characterLimit) ==
    IF truncated # << >> THEN truncated
    ELSE substring0(tweet, characterLimit - 3) \o <<46, 46, 46>>

\* what generateTweet returns for a tweet that is not empty
lengthChecked(tweet, characterLimit) ==
    IF Len(tweet) > characterLimit
    THEN truncatedOr(trim(truncatedFrom(split(tweet), characterLimit)), tweet, characterLimit)
    ELSE tweet

maxRetries == 3

\* "Empty response from OpenAI", "Failed to generate tweet after ", " attempts: "
MessageEmptyResponse == <<69, 109, 112, 116, 121, 32, 114, 101, 115, 112, 111, 110, 115, 101, 32, 102, 114, 111, 109, 32, 79, 112, 101, 110, 65, 73>>
MessageFailedAfter == <<70, 97, 105, 108, 101, 100, 32, 116, 111, 32, 103, 101, 110, 101, 114, 97, 116, 101, 32, 116, 119, 101, 101, 116, 32, 97, 102, 116, 101, 114, 32>>
MessageAttempts == <<32, 97, 116, 116, 101, 109, 112, 116, 115, 58, 32>>

\* a loop that sleeps after every failed attempt
sleepsAfterEvery(attempt) == TRUE

\* if (attempt < maxRetries) await this.sleep(..)
sleepsAfter(attempt) == attempt < maxRetries

\* Math.pow(2, attempt) * 1000
backoff(attempt) == (2 ^ attempt) * 1000

\* attempt++ and the test attempt <= maxRetries; the throw after the loop
nextAttempt(g) ==
    IF g.attempt + 1 <= maxRetries
    THEN [g EXCEPT !.pc = "calling", !.attempt = @ + 1]
    ELSE [g EXCEPT !.pc = "done", !.attempt = @ + 1, !.outcome = "threw",
                   !.error = MessageFailedAfter \o toString10(maxRetries)
                                 \o MessageAttempts \o g.lastError]

\* the catch block of the loop
attemptFailed(g, message) ==
    IF sleepsAfter(g.attempt)
    THEN [g EXCEPT !.pc = "sleeping", !.lastError = message,
                   !.failures = Append(@, message),
                   !.waits = Append(@, backoff(g.attempt))]
    ELSE nextAttempt([g EXCEPT !.lastError = message, !.failures = Append(@, message)])

\* the try block after the call came back with output_text
attemptAnswered(g, tweet) ==
    IF tweet = << >> THEN attemptFailed(g, MessageEmptyResponse)
    ELSE [g EXCEPT !.pc = "done", !.outcome = "returned",
                   !.text = lengthChecked(tweet, g.characterLimit)]

\* "timeout", "busy": messages of a call that failed
AiFailures == {<<116, 105, 109, 101, 111, 117, 116>>, <<98, 117, 115, 121>>}

\* a short URL: "http://a"
TinyUrl == HttpScheme \o <<97>>

\* output_text of a call that came back: " \n", " hi\n", 300 letters, two
\* sentences of 150 letters, a stop and 300 letters, and texts with short URLs
\* of 255 and 280 characters
AiOutputs ==
    {<<32, 10>>, <<32, 104, 105, 10>>, Filler(300),
     Filler(150) \o <<33, 32>> \o Filler(150) \o <<46>>,
     <<46>> \o Filler(300),
     Filler(237) \o <<32>> \o TinyUrl \o <<32>> \o TinyUrl,
     Filler(271) \o <<32>> \o TinyUrl}

\* what a call of the model ends with: it fails, it comes back without
\* output_text, it comes back with one
AiResponses ==
    {[kind |-> "failed", message |-> m, text |-> << >>] : m \in AiFailures}
        \cup {[kind |-> "noText", message |-> << >>, text |-> << >>]}
        \cup {[kind |-> "text", message |-> << >>, text |-> t] : t \in AiOutputs}

\* characterLimit of the prompts: of the registered sources, and a small one
PromptLimits == {2, 255, 280}

\* generateTweet(prompt) is called and makes its first request
generateTweetCalled(characterLimit) ==
    [NoGeneration EXCEPT !.pc = "calling", !.characterLimit = characterLimit,
                         !.attempt = 1, !.startedAt = clock]

CallGenerateTweet ==
    /\ gen.pc = "idle"
    /\ \E characterLimit \in PromptLimits : gen' = generateTweetCalled(characterLimit)
    /\ UNCHANGED <<queries, statusReq, run, sched, clock>>
    /\ UNCHANGED <<rotVars, encVars, valVars, sgVars, twVars>>

\* the request of this attempt ends
AiAnswers ==
    /\ gen.pc = "calling"
    /\ \E response \in AiResponses :
          gen' = IF response.kind = "failed"
                 THEN attemptFailed([gen EXCEPT !.requests = @ + 1, !.output = << >>],
                                    response.message)
                 ELSE attemptAnswered([gen EXCEPT !.requests = @ + 1, !.output = response.text],
                                      trim(response.text))
    /\ UNCHANGED <<queries, statusReq, run, sched, clock>>
    /\ UNCHANGED <<rotVars, encVars, valVars, sgVars, twVars>>

\* the sleep is over
WakeUp ==
    /\ gen.pc = "sleeping"
    /\ clock' = clock + gen.waits[Len(gen.waits)]
    /\ gen' = nextAttempt(gen)
    /\ UNCHANGED <<queries, statusReq, run, sched>>
    /\ UNCHANGED <<rotVars, encVars, valVars, sgVars, twVars>>

GenInit ==
    /\ gen = NoGeneration
    /\ clock = ClockStart
    /\ RotIdle
    /\ EncIdle
    /\ ValIdle
    /\ SgIdle
    /\ TwIdle

GenNext ==
    \/ CallGenerateTweet
    \/ AiAnswers
    \/ WakeUp

\* a request that was made ends, and a sleep ends
SpecGenerate ==
    GenInit /\ [][GenNext]_vars /\ WF_vars(AiAnswers) /\ WF_vars(WakeUp)

----------------------------------------------------------------------------
(* processScheduledTweet: scrape, generate, post *)

\* getCharacterLimit() of the registered sources HackerNews, TechCrunch, YahooFinance
characterLimitOf(source) == IF source = 2 THEN 280 ELSE 255

\* a workflow that logs the error and ends normally
swallowed(r, error) ==
    [r EXCEPT !.pc = "done", !.outcome = "returned", !.raised = error]

\* catch (error) { ..; throw error; }
rethrown(r, error) ==
    [r EXCEPT !.pc = "done", !.outcome = "threw", !.raised = error, !.rejected = error]

\* a step came to its end without an error
stepped(r, pc) == [r EXCEPT !.pc = pc, !.steps = Append(@, r.pc)]

\* step 1: rotationService.getCurrentSource(), and getName() of what it returned
RunSelectsSource ==
    /\ status = "constructed"
    /\ run.pc = "idle"
    /\ run' = IF getCurrentSource(now) = Undefined
              THEN rethrown([run EXCEPT !.pc = "select"], "select")
              ELSE [stepped([run EXCEPT !.pc = "select"], "listing")
                       EXCEPT !.source = getCurrentSource(now)]
    /\ UNCHANGED <<queries, gen, statusReq, sched>>
    /\ UNCHANGED rotVars
    /\ UNCHANGED nonSvcVars

\* step 2: fetch of the listing page fails, answers not ok, answers ok with a
\* body that cannot be read, or answers ok with its html
RunFetchesListing ==
    /\ run.pc = "listing"
    /\ \E end \in {"failed", "notOk", "noText", "html"} :
          run' = IF end = "html" THEN stepped(run, "links") ELSE rethrown(run, "listing")
    /\ UNCHANGED <<queries, gen, statusReq, sched>>
    /\ UNCHANGED rotVars
    /\ UNCHANGED nonSvcVars

\* the article links a listing may hold: none, or two (numbered 7 and 9)
ListingLinks == {<< >>, <<7, 9>>}

\* step 3: scrapeArticleLinks throws, finds nothing, or finds links, of which
\* the first is taken
RunExtractsLinks ==
    /\ run.pc = "links"
    /\ \/ run' = rethrown(run, "links")
       \/ \E articleLinks \in ListingLinks :
             run' = IF Len(articleLinks) = 0 THEN rethrown(run, "links")
                    ELSE [stepped(run, "article") EXCEPT !.links = articleLinks,
                                                         !.articleUrl = articleLinks[1]]
    /\ UNCHANGED <<queries, gen, statusReq, sched>>
    /\ UNCHANGED rotVars
    /\ UNCHANGED nonSvcVars

\* steps 4 to 6: fetchArticleContent throws, returns an article without a
\* title, or returns an article, from which the prompt is made and handed to
\* generateTweet
RunFetchesArticle ==
    /\ run.pc = "article"
    /\ \E end \in {"failed", "noTitle", "article"} :
          IF end = "article"
          THEN /\ run' = [stepped(run, "generate") EXCEPT
                             !.characterLimit = characterLimitOf(run.source)]
               /\ gen' = generateTweetCalled(characterLimitOf(run.source))
          ELSE /\ run' = rethrown(run, "article")
               /\ UNCHANGED gen
    /\ UNCHANGED <<queries, statusReq, sched>>
    /\ UNCHANGED rotVars
    /\ UNCHANGED nonSvcVars

\* generateTweet threw
RunFailsToGenerate ==
    /\ run.pc = "generate"
    /\ gen.pc = "done"
    /\ gen.outcome = "threw"
    /\ run' = rethrown(run, "generate")
    /\ UNCHANGED <<queries, gen, statusReq, sched>>
    /\ UNCHANGED rotVars
    /\ UNCHANGED nonSvcVars

\* step 7: generateTweet returned tweetText, and postTweet(tweetText) is called
RunPosts ==
    /\ run.pc = "generate"
    /\ gen.pc = "done"
    /\ gen.outcome = "returned"
    /\ postTweetCalled(1, {gen.text})
    /\ run' = [stepped(run, "post") EXCEPT !.tweetText = gen.text, !.postedText = gen.text,
                                           !.posts = @ + 1]
    /\ UNCHANGED <<queries, gen, statusReq, sched>>
    /\ UNCHANGED <<rotVars, encVars, valVars, sgVars>>

\* postTweet came to its end: the run is over, or the error is thrown again
RunEnds ==
    /\ run.pc = "post"
    /\ calls[1].pc = "done"
    /\ run' = IF calls[1].outcome = "threw" THEN rethrown(run, "post")
              ELSE [stepped(run, "done") EXCEPT !.outcome = "returned"]
    /\ UNCHANGED <<queries, gen, statusReq, sched>>
    /\ UNCHANGED rotVars
    /\ UNCHANGED nonSvcVars

\* the worker with its rotationService singleton and its credentials
WorkflowInit ==
    /\ status = "constructed"
    /\ argSources = Registry(3)
    /\ argInterval = DefaultArg
    /\ sources = Registry(3)
    /\ intervalHours = DefaultIntervalHours
    /\ now \in QueryInstants
    /\ clock = now
    /\ call = NoCall
    /\ ret = 0
    /\ retSchedule = << >>
    /\ env = ExampleEnv
    /\ calls = [c \in Callers |-> NoRequest]
    /\ rngDraws = 0
    /\ EncIdle
    /\ ValIdle
    /\ SgIdle
    /\ SvcIdle

WorkflowNext ==
    \/ RunSelectsSource
    \/ RunFetchesListing
    \/ RunExtractsLinks
    \/ RunFetchesArticle
    \/ AiAnswers
    \/ WakeUp
    \/ RunFailsToGenerate
    \/ RunPosts
    \/ SendRequest(1)
    \/ Respond(1, ConcurrentTweetResponses)
    \/ RunEnds

SpecWorkflow == WorkflowInit /\ [][WorkflowNext]_vars

----------------------------------------------------------------------------
(* Properties of postTweet, testConnection and generateOAuthHeader *)

MethodOf(op) == IF op = "postTweet" THEN MethodPost ELSE MethodGet
UrlOf(op) == IF op = "postTweet" THEN TweetsUrl ELSE UsersMeUrl

Encoded(str) == percentEncode(str).str

\* the six oauth_* parameters as key=value joined with "&", in the byte order of
\* their names, written out
ExpectedParamString(consumerKey, nonce, timestamp, token) ==
    <<111, 97, 117, 116, 104, 95, 99, 111, 110, 115, 117, 109, 101, 114, 95, 107, 101, 121, 61>> \o Encoded(consumerKey)
        \o <<38, 111, 97, 117, 116, 104, 95, 110, 111, 110, 99, 101, 61>> \o Encoded(nonce)
        \o <<38, 111, 97, 117, 116, 104, 95, 115, 105, 103, 110, 97, 116, 117, 114, 101, 95, 109, 101, 116, 104, 111, 100, 61, 72, 77, 65, 67, 45, 83, 72, 65, 49, 38, 111, 97, 117, 116, 104, 95, 116, 105, 109, 101, 115, 116, 97, 109, 112, 61>> \o Encoded(timestamp)
        \o <<38, 111, 97, 117, 116, 104, 95, 116, 111, 107, 101, 110, 61>> \o Encoded(token)
        \o <<38, 111, 97, 117, 116, 104, 95, 118, 101, 114, 115, 105, 111, 110, 61, 49, 46, 48>>

ExpectedBaseString(request) ==
    MethodOf(request.op) \o <<38>> \o Encoded(UrlOf(request.op)) \o <<38>>
        \o Encoded(ExpectedParamString(env.TWITTER_API_KEY, request.nonce, request.timestamp,
                                       env.TWITTER_ACCESS_TOKEN))

ExpectedSigningKey ==
    Encoded(env.TWITTER_API_SECRET) \o <<38>> \o Encoded(env.TWITTER_ACCESS_SECRET)

\* C12: what is signed for a request is the base string UPPERCASE(method) &
\* percentEncode(url) & percentEncode(parameter string), the parameter string
\* being the percent-encoded key=value pairs of the six oauth_* parameters and
\* nothing of the request body, under the key percentEncode(consumer secret) &
\* percentEncode(token secret).
C12_SignedBaseStringAndKey ==
    \A c \in Callers :
        calls[c].pc \in {"signing", "fetching"} =>
            /\ calls[c].signatureBaseString = ExpectedBaseString(calls[c])
            /\ calls[c].signingKey = ExpectedSigningKey
            /\ calls[c].pc = "fetching" =>
                  calls[c].signature = sign(calls[c].signingKey, calls[c].signatureBaseString)

C12_Witness ==
    \E c \in Callers :
        /\ calls[c].op = "postTweet"
        /\ calls[c].pc = "fetching"
        /\ calls[c].requestBody # << >>
        /\ calls[c].signingKey # << >>
        /\ calls[c].signature # << >>

\* does sub stand somewhere in str
Occurs(sub, str) == \E i \in 1..(Len(str) - Len(sub) + 1) : LiteralAt(str, i, sub)

\* key="percent-encoded value"
Rendered(key, value) == key \o <<61, 34>> \o Encoded(value) \o <<34>>

\* the seven parameters of the header of a call, rendered
RenderedParams(request) ==
    <<Rendered(OAuthConsumerKey, env.TWITTER_API_KEY),
      Rendered(OAuthToken, env.TWITTER_ACCESS_TOKEN),
      Rendered(OAuthSignatureMethod, HmacSha1),
      Rendered(OAuthTimestamp, request.timestamp),
      Rendered(OAuthNonce, request.nonce),
      Rendered(OAuthVersion, Version10),
      Rendered(OAuthSignature, request.signature)>>

RECURSIVE SumOfLengths(_)
SumOfLengths(parts) == IF parts = << >> THEN 0 ELSE Len(Head(parts)) + SumOfLengths(Tail(parts))

\* header is "OAuth " and then the parts in some order with ", " between them:
\* every part stands in it between two separators, and nothing else does
IsOAuthHeaderOf(header, parts) ==
    /\ LiteralAt(header, 1, OAuthPrefix)
    /\ Len(header) = Len(OAuthPrefix) + SumOfLengths(parts) + 2 * (Len(parts) - 1)
    /\ \A k \in 1..Len(parts) :
          \/ Occurs(<<44, 32>> \o parts[k] \o <<44, 32>>, header)
          \/ LiteralAt(header, 1, OAuthPrefix \o parts[k] \o <<44, 32>>)
          \/ LiteralAt(header, Len(header) - Len(parts[k]) - 1, <<44, 32>> \o parts[k])

\* the nonce and the timestamp stand in the base string that was signed
SignedOver(request) ==
    /\ request.signature = sign(request.signingKey, request.signatureBaseString)
    /\ Occurs(Encoded(OAuthNonce \o <<61>> \o request.nonce \o <<38>>), request.signatureBaseString)
    /\ Occurs(Encoded(OAuthTimestamp \o <<61>> \o request.timestamp \o <<38>>),
              request.signatureBaseString)

\* C16: the Authorization header of a request is "OAuth " and then the oauth_*
\* parameters and oauth_signature, each as key="percent-encoded value", with
\* ", " between them; its nonce and timestamp are the ones signed and its
\* signature is the one computed over them.
C16_HeaderCarriesWhatWasSigned ==
    \A c \in Callers :
        calls[c].pc = "fetching" =>
            /\ IsOAuthHeaderOf(calls[c].authHeader, RenderedParams(calls[c]))
            /\ SignedOver(calls[c])

C16_Witness ==
    \E c \in Callers :
        /\ calls[c].pc = "fetching"
        /\ calls[c].op = "testConnection"
        /\ Occurs(OAuthSignature \o <<61, 34>>, calls[c].authHeader)

LowerHexChar(d) == IF d < 10 THEN 48 + d ELSE 87 + d

\* two lower-case hexadecimal digits for every byte
ClaimedHex(array) ==
    [i \in 1..(2 * Len(array)) |->
        IF i % 2 = 1 THEN LowerHexChar(array[(i + 1) \div 2] \div 16)
        ELSE LowerHexChar(array[i \div 2] % 16)]

Drawn == {c \in Callers : calls[c].draw # 0}

\* C17: every postTweet or testConnection request draws its own 32 random bytes
\* for a nonce of 64 lower-case hexadecimal characters and takes the Unix seconds
\* of the time of the call, and computes one signature for its one HTTP attempt;
\* no draw serves two calls, also when the calls run concurrently.
C17_OwnNonceAndTimestamp ==
    /\ \A c \in Drawn :
          /\ Len(calls[c].array) = 32
          /\ Len(calls[c].nonce) = 64
          /\ calls[c].nonce = ClaimedHex(calls[c].array)
          /\ calls[c].timestamp = toString10(calls[c].startedAt \div 1000)
          /\ calls[c].startedAt <= clock
          /\ calls[c].signatures = calls[c].attempts
          /\ calls[c].attempts = IF calls[c].pc \in {"fetching", "done"} THEN 1 ELSE 0
    /\ \A c1 \in Drawn, c2 \in Drawn : c1 # c2 => calls[c1].draw # calls[c2].draw
    /\ rngDraws = Cardinality(Drawn)

C17_Witness ==
    /\ calls[1].pc = "signing"
    /\ calls[2].pc = "fetching"
    /\ calls[1].draw # calls[2].draw
    /\ calls[1].nonce # calls[2].nonce
    /\ calls[1].timestamp # calls[2].timestamp

\* empty after trimming, or of an effective length above 280
InvalidText(text) ==
    \/ \A i \in 1..Len(text) : IsWhiteSpace(text[i])
    \/ ClaimedEffectiveLength(text) > 280

C20_FailuresAreRaised ==
    \A c \in Callers :
        calls[c].op = "postTweet" /\ calls[c].pc = "done" /\ calls[c].attempts = 1 =>
            /\ calls[c].outcome = "returned" =>
                  /\ calls[c].response.kind = "response"
                  /\ calls[c].response.status \in 200..299
                  /\ calls[c].response.json = "id"
                  /\ calls[c].value = [type |-> "string", str |-> calls[c].response.id]
            /\ calls[c].response.kind = "response" /\ calls[c].response.status \notin 200..299 =>
                  /\ calls[c].outcome = "threw"
                  /\ calls[c].error.message =
                        MessageApiError \o toString10(calls[c].response.status)
                            \o MessageApiErrorColon \o calls[c].response.body
            /\ \/ calls[c].response.kind = "failed"
               \/ calls[c].response.json \in {"noId", "noData", "invalid"}
               => calls[c].outcome = "threw"

----------------------------------------------------------------------------
(* Properties of testConnection and of the credentials *)

\* every credential the signer reads can be encoded
Signable == \A k \in DOMAIN env : WellFormed(env[k])

\* C21: testConnection never raises. It sends at most one request, a GET to
\* users/me without a body and signed, and exactly one unless signing raised; it
\* returns true exactly when that request got a response with a status in
\* 200..299, and false for any other response, a failed fetch or a failed signing.
C21_TestConnectionNeverRaises ==
    \A c \in Callers :
        calls[c].op = "testConnection" =>
          /\ calls[c].outcome # "threw"
          /\ calls[c].attempts <= 1
          /\ calls[c].attempts = 1 =>
                /\ calls[c].method = MethodGet
                /\ calls[c].url = UsersMeUrl
                /\ ~calls[c].hasBody
                /\ calls[c].signatures = 1
          /\ calls[c].pc = "done" =>
                /\ calls[c].outcome = "returned"
                /\ calls[c].value.type = "boolean"
                /\ calls[c].attempts = (IF Signable THEN 1 ELSE 0)
                /\ calls[c].value.str =
                      (IF /\ calls[c].attempts = 1
                          /\ calls[c].response.kind = "response"
                          /\ calls[c].response.status \in 200..299
                       THEN TextTrue ELSE TextFalse)

\* signing raised inside testConnection, which returned false without a request
C21_Witness ==
    /\ ~Signable
    /\ calls[1].op = "testConnection"
    /\ calls[1].pc = "done"
    /\ calls[1].value.str = TextFalse
    /\ calls[1].attempts = 0

\* a credential is missing or empty
CredentialLacking == \E k \in DOMAIN env : env[k] = << >> \/ env[k] = MissingCredential

\* C22: when any of the four credentials is missing or empty, no call of the
\* client computes a signature or sends a request, and postTweet ends with an
\* error.
C22_NoSigningWithoutCredentials ==
    \A c \in Callers :
        CredentialLacking /\ calls[c].op # "none" =>
          /\ calls[c].signatures = 0
          /\ calls[c].attempts = 0
          /\ calls[c].op = "postTweet" /\ calls[c].pc = "done" => calls[c].outcome = "threw"

----------------------------------------------------------------------------
(* Properties of generateTweet *)

\* the waits of the claim, in milliseconds
ClaimedWaits == <<2000, 4000>>

SumOfWaits(waits) == IF Len(waits) = 0 THEN 0 ELSE IF Len(waits) = 1 THEN waits[1] ELSE waits[1] + waits[2]

AttemptsBounded ==
    /\ gen.requests <= 3
    /\ Len(gen.failures) <= 3
    /\ gen.waits = SubSeq(ClaimedWaits, 1, IF Len(gen.failures) < 2 THEN Len(gen.failures) ELSE 2)
    /\ gen.requests = Len(gen.failures) + (IF gen.outcome = "returned" THEN 1 ELSE 0)
    /\ (trim(gen.output) # << >>) <=> (gen.outcome = "returned")
    /\ gen.outcome = "returned" => gen.pc = "done" /\ gen.text # << >>
    /\ gen.outcome = "threw" =>
          /\ gen.pc = "done"
          /\ Len(gen.failures) = 3
          /\ gen.error = MessageFailedAfter \o <<51>> \o MessageAttempts \o gen.failures[3]
    /\ gen.pc # "idle" =>
        clock - gen.startedAt =
          (IF gen.pc = "sleeping" THEN SumOfWaits(gen.waits) - gen.waits[Len(gen.waits)]
           ELSE SumOfWaits(gen.waits))

\* C25: generateTweet makes at most 3 requests; it returns at the first one
\* that brings text that is not empty after trimming and counts a failed request
\* and an empty response as failures; it waits 2 s after the first failure and
\* 4 s after the second and not after the third; after three failures it raises
\* an error that ends with the message of the third; and a call whose requests
\* all end comes to its end.
C25_ThreeAttemptsWithBackoff ==
    /\ []AttemptsBounded
    /\ (gen.pc = "calling") ~> (gen.pc = "done")

\* three failures with different messages, and the error carries the last
C25_Witness ==
    /\ gen.outcome = "threw"
    /\ gen.failures[1] # gen.failures[3]
    /\ gen.failures[2] = MessageEmptyResponse
    /\ gen.waits = ClaimedWaits
    /\ clock = gen.startedAt + 6000

\* the characterLimit of the registered sources
RegisteredLimits == {255, 280}

\* C29: a text that generateTweet returns is not empty and has at most
\* characterLimit characters, and with the characterLimit of a registered source
\* it passes the validation of postTweet.
C29_GeneratedTextPassesValidation ==
    gen.outcome = "returned" =>
        /\ gen.text # << >>
        /\ Len(gen.text) <= gen.characterLimit
        /\ gen.characterLimit \in RegisteredLimits =>
              /\ ~textIsEmpty(gen.text)
              /\ validateTweetLength(gen.text, TweetMaxLength)

----------------------------------------------------------------------------
(* Properties of the validation of postTweet *)

\* postTweet got past its two checks: it went on to generateOAuthHeader
PassedValidation(c) == calls[c].draw > 0

\* C28: postTweet(text) passes validation exactly when the trimmed text, the
\* text that is sent, is not empty and has an effective length of at most 280.
C28_DecisionOnTrimmedText ==
    \A c \in Callers :
        calls[c].op = "postTweet" =>
            (PassedValidation(c) <=>
                /\ trim(calls[c].text) # << >>
                /\ ClaimedEffectiveLength(trim(calls[c].text)) <= 280)

----------------------------------------------------------------------------
(* Properties of the entries of getSchedule *)

DayOf(t) == t \div MsPerDay

\* C26: in getSchedule(now) the timestamps increase strictly, consecutive
\* entries are exactly intervalHours hours apart, an entry whose hour of the
\* day is below the hour of now is dated on the next UTC day (and every other
\* entry on the day of now), and the source of an entry is the one
\* getCurrentSource gives at the entry's timestamp.
C26_ScheduleEntries ==
    (call.op = "getSchedule" /\ intervalHours > 0) =>
        /\ \A i \in 1..(Len(retSchedule) - 1) :
              /\ retSchedule[i].time < retSchedule[i + 1].time
              /\ retSchedule[i + 1].time - retSchedule[i].time = intervalHours * MsPerHour
        /\ \A i \in 1..Len(retSchedule) :
              /\ DayOf(retSchedule[i].time) =
                    (IF Hour(retSchedule[i].time) < Hour(call.now)
                     THEN DayOf(call.now) + 1 ELSE DayOf(call.now))
              /\ retSchedule[i].source = getCurrentSource(retSchedule[i].time)

\* a schedule asked for at 23 h, whose second entry is on the next day
C26_Witness ==
    /\ call.op = "getSchedule"
    /\ Hour(call.now) = 23
    /\ Len(retSchedule) >= 2
    /\ DayOf(retSchedule[2].time) = DayOf(call.now) + 1
    /\ retSchedule[2].source = getCurrentSource(retSchedule[2].time)

----------------------------------------------------------------------------
(* Properties of the services the constructor accepts *)

\* C30: for every service the constructor accepts, getCurrentSource and
\* getNextSource return a source, and getSchedule ends, within the 24
\* iterations a day has room for, with a source in every entry.
C30_AcceptedIntervalsServe ==
    /\ call.op \in {"getCurrentSource", "getNextSource"} => ret # Undefined
    /\ sched.outcome # "threw"
    /\ sched.iterations <= HoursPerDay

----------------------------------------------------------------------------
(* Properties of the /status response *)

\* the source after s in the registry, the first after the last
SuccessorInRegistry(s) == sources[(s % Len(sources)) + 1]

\* C27: in a /status response nextSource is the cyclic successor of
\* currentSource, whatever the clock does between the reads of the handler.
C27_StatusConsistent ==
    statusReq.pc = "done" =>
        statusReq.nextSource = SuccessorInRegistry(statusReq.currentSource)

----------------------------------------------------------------------------
(* Properties of processScheduledTweet *)

\* the order of the steps in the claim
ClaimedOrder == <<"select", "listing", "links", "article", "generate", "post">>

\* C24: the steps of a run happen in the order select, listing, links, first
\* article, generate, post; postTweet is invoked at most once, only after the
\* five steps before it succeeded and with exactly the text generateTweet
\* returned; a failure at any step ends the run, without a call of postTweet
\* when the step is before the post, and the run rejects with that error.
C24_WorkflowOrder ==
    /\ Len(run.steps) <= 6
    /\ run.steps = SubSeq(ClaimedOrder, 1, Len(run.steps))
    /\ run.posts <= 1
    /\ run.posts = (IF calls[1].op = "postTweet" THEN 1 ELSE 0)
    /\ calls[1].attempts <= 1
    /\ run.posts = 1 =>
          /\ Len(run.steps) >= 5
          /\ gen.outcome = "returned"
          /\ run.postedText = gen.text
          /\ calls[1].text = gen.text
          /\ run.articleUrl = run.links[1]
    /\ run.raised # "none" =>
          /\ run.pc = "done"
          /\ run.outcome = "threw"
          /\ run.rejected = run.raised
          /\ run.raised = ClaimedOrder[Len(run.steps) + 1]
          /\ run.raised # "post" => run.posts = 0 /\ calls[1].attempts = 0
    /\ gen.outcome = "threw" /\ run.pc = "done" => run.raised = "generate"
    /\ calls[1].outcome = "threw" /\ run.pc = "done" => run.raised = "post"
    /\ run.outcome = "returned" =>
          /\ run.steps = ClaimedOrder
          /\ run.raised = "none"
          /\ calls[1].outcome = "returned"

\* generateTweet failed three times: the run rejects and nothing was posted
C24_Witness ==
    /\ run.pc = "done"
    /\ run.steps = <<"select", "listing", "links", "article">>
    /\ gen.requests = 3
    /\ run.rejected = "generate"
    /\ run.posts = 0
    /\ calls[1].op = "none"

====
